---------------------------- MODULE Spec2Model ----------------------------
(***************************************************************************)
(* A model of scripts/dbgbtree.py, the rbyd B-tree debugging script of     *)
(* littlefs: the codec (crc32c, fromle32, fromleb128, fromtag, frombtree), *)
(* Rbyd.fetch, Rbyd.lookup and main's btree_lookup with its traversal.     *)
(*                                                                         *)
(* Conventions.  A byte is a number in 0..255 and a byte string is a       *)
(* sequence of bytes; Python offsets are 0-based, so the byte at offset o  *)
(* of data is data[o+1].  A 32-bit word (a CRC, a revision count) is the   *)
(* set of the positions 0..31 of its one-bits: the integers of TLC are     *)
(* 31 bits wide.  Python's None is 0 wherever the code only tests          *)
(* truthiness (the requested trunk, trunkoff, the depth limit).            *)
(***************************************************************************)
EXTENDS Integers, Sequences, FiniteSets, TLC

VARIABLES
    f,          \* the disk image: the bytes of the file main opens
    block_size, \* main's block_size
    gen,        \* how the image was built (the records it was encoded from)
    blocks,     \* fetch's argument: the list of block addresses
    trunk,      \* fetch's argument: the requested trunk (0: None)
    data,       \* fetch: the bytes of the block being scanned
    scan,       \* fetch: the locals of the scan loop
    ret,        \* fetch: the Rbyd returned
    rbyds,      \* fetch of mirrored blocks: the Rbyd fetched from each
    mi,         \* fetch of mirrored blocks: i, the most recent one so far
    mi_,        \* fetch of mirrored blocks: i_, the one compared next
    btree,      \* main: the Rbyd of the root
    depth,      \* main: the depth limit (0: None)
    bid,        \* main's traversal: the bid of the last entry resolved
    corrupted,  \* main's traversal: the corruption flag
    res,        \* main's traversal: what the last btree_lookup returned
    out,        \* main's traversal: the entries shown so far
    it,         \* Rbyd.__iter__ and Rbyd.tree: the locals of their loop
    lk,         \* Rbyd.lookup: the locals of the descent
    pc          \* where the program is

scanVars == <<data, scan>>
mirrorVars == <<rbyds, mi, mi_>>
btreeVars == <<btree, depth, bid, corrupted, res, out>>
iterVars == <<it, lk>>
vars == <<f, block_size, gen, blocks, trunk, data, scan, ret, rbyds, mi, mi_,
          btree, depth, bid, corrupted, res, out, it, lk, pc>>

(* lines 865-868: the traversal before its first turn *)
BtreeIdle ==
    /\ btree = [block |-> 0]
    /\ depth = 0
    /\ bid = -1
    /\ corrupted = FALSE
    /\ res = [at |-> "start"]
    /\ out = << >>

(* no iteration and no lookup under way *)
IterIdle ==
    /\ it = [at |-> "start"]
    /\ lk = [at |-> "start"]

--------------------------------------------------------------------------
(* Tag constants, lines 11-27 *)
TAG_UNR == 4096
TAG_NAME == 256
TAG_REG == 257
TAG_INLINED == 768
TAG_BTREE == 771
TAG_ALT == 16384
TAG_CRC == 8192

Min(a, b) == IF a < b THEN a ELSE b
Max(a, b) == IF a > b THEN a ELSE b

(* x & (2^n - 1) << lo, shifted down: the n-bit field of x at bit lo *)
Field(x, lo, n) == (x \div (2 ^ lo)) % (2 ^ n)

(* Python's data[a:b]: indices are clamped, a negative one counts from   *)
(* the end.                                                              *)
PyIndex(i, n) == IF i < 0 THEN Max(n + i, 0) ELSE Min(i, n)
PySlice(bytes, a, b) ==
    LET lo == PyIndex(a, Len(bytes))
        hi == PyIndex(b, Len(bytes))
    IN  IF lo < hi THEN SubSeq(bytes, lo + 1, hi) ELSE << >>
PyFrom(bytes, a) == PySlice(bytes, a, Len(bytes))

--------------------------------------------------------------------------
(* 32-bit words as sets of bit positions *)
Word32 == 0 .. 31
Xor(a, b) == (a \cup b) \ (a \cap b)
ByteBits(b) == {i \in 0 .. 7 : Field(b, i, 1) = 1}
(* 0x82f63b78 *)
CRC32C_POLY == {3, 4, 5, 6, 8, 9, 11, 12, 13, 17, 18, 20, 21, 22, 23, 25, 31}

(* lines 70-71: crc = (crc >> 1) ^ ((crc & 1) * 0x82f63b78), 8 times *)
RECURSIVE crc32c_bits(_, _)
crc32c_bits(crc, j) ==
    IF j = 0 THEN crc
    ELSE LET shifted == {i - 1 : i \in crc \ {0}}
         IN  crc32c_bits(IF 0 \in crc THEN Xor(shifted, CRC32C_POLY)
                                      ELSE shifted, j - 1)

RECURSIVE crc32c_bytes(_, _, _)
crc32c_bytes(bytes, k, crc) ==
    IF k > Len(bytes) THEN crc
    ELSE LET crc2 == crc32c_bits(Xor(crc, ByteBits(bytes[k])), 8)
         IN  IF crc2 = {} THEN crc32c_bytes(bytes, k + 1, {})
                          ELSE crc32c_bytes(bytes, k + 1, crc2)

(* lines 66-72 *)
crc32c(bytes, crc) == Word32 \ crc32c_bytes(bytes, 1, Word32 \ crc)

(* lines 99-100 *)
popc(x) == Cardinality(x)

(* lines 74-75: four little-endian bytes, a short string padded with 0 *)
fromle32(bytes) ==
    {8 * k + i : k \in 0 .. Min(Len(bytes), 4) - 1, i \in 0 .. 7}
        \cap UNION {{8 * (k - 1) + i : i \in ByteBits(bytes[k])}
                        : k \in 1 .. Min(Len(bytes), 4)}

(* lines 77-84.  word |= (b & 0x7f) << 7*i; word &= 0xffffffff: the groups *)
(* are disjoint, so | is +; a group shifted past bit 31 is masked away.    *)
RECURSIVE fromleb128_loop(_, _, _)
fromleb128_loop(bytes, i, word) ==
    IF i >= Len(bytes) THEN [word |-> word, d |-> Len(bytes)]
    ELSE LET b == bytes[i + 1]
             group == IF i >= 5 THEN 0
                      ELSE IF i = 4 THEN (b % 16) * (2 ^ 28)
                      ELSE (b % 128) * (2 ^ (7 * i))
             word2 == word + group
         IN  IF b < 128 THEN [word |-> word2, d |-> i + 1]
                        ELSE fromleb128_loop(bytes, i + 1, word2)
fromleb128(bytes) == fromleb128_loop(bytes, 0, 0)

(* lines 86-90.  data[0] and data[1] raise IndexError on a string shorter *)
(* than 2 bytes: callers test TagRaises first.                            *)
TagRaises(bytes) == Len(bytes) < 2
fromtag(bytes) ==
    LET tag == bytes[1] * 256 + bytes[2]
        wd == fromleb128(PyFrom(bytes, 2))
        sd == fromleb128(PyFrom(bytes, 2 + wd.d))
    IN  [v |-> tag \div 32768, tag |-> tag % 32768, w |-> wd.word,
         size |-> sd.word, d |-> 2 + wd.d + sd.d]

(* lines 92-97 *)
frombtree(bytes) ==
    LET w == fromleb128(bytes)
        t == fromleb128(PyFrom(bytes, w.d))
        b == fromleb128(PyFrom(bytes, w.d + t.d))
    IN  [w |-> w.word, trunk |-> t.word, block |-> b.word,
         crc |-> fromle32(PyFrom(bytes, w.d + t.d + b.d))]

IsAlt(tag) == Field(tag, 14, 1) = 1
IsCrc(tag) == Field(tag, 8, 7) * 256 = TAG_CRC

--------------------------------------------------------------------------
(* Rbyd.fetch, one block: lines 220-294 *)

(* lines 229-230: f.seek(block * block_size); f.read(block_size) *)
ReadBlock(file, bsize, block) ==
    PySlice(file, block * bsize, block * bsize + bsize)

(* lines 233-244: the locals before the scan loop *)
FetchInit(bytes) ==
    [rev |-> fromle32(PySlice(bytes, 0, 4)),
     crc |-> {},
     crc_ |-> crc32c(PySlice(bytes, 0, 4), {}),
     off |-> 0, j_ |-> 4, trunk_ |-> 0, trunk__ |-> 0, weight |-> 0,
     lower_ |-> 0, upper_ |-> 0, weight_ |-> 0,
     wastrunk |-> FALSE, trunkoff |-> 0, at |-> "scan"]

(* FetchCommit with a slip: only the first commit is taken *)
FetchCommit_first(s, end) ==
    IF s.off # 0 THEN s
    ELSE [s EXCEPT !.off = IF s.trunkoff # 0 THEN s.trunkoff ELSE end,
                   !.trunk_ = s.trunk__,
                   !.weight = s.weight_]

(* lines 263-267: commit what we have *)
FetchCommit(s, end) ==
    [s EXCEPT !.off = IF s.trunkoff # 0 THEN s.trunkoff ELSE end,
              !.trunk_ = s.trunk__,
              !.weight = s.weight_]

(* FetchTrunk with a slip: trunks above the trunk requested are taken too *)
FetchTrunk_any(s, T, t, j, end) ==
    IF Field(t.tag, 13, 2) # 1
    THEN LET o == IF ~s.wastrunk
                  THEN [s EXCEPT !.trunk__ = j, !.lower_ = 0, !.upper_ = 0,
                                 !.wastrunk = TRUE]
                  ELSE s
         IN  IF IsAlt(t.tag)
             THEN IF Field(t.tag, 13, 1) = 1
                  THEN [o EXCEPT !.upper_ = @ + t.w]
                  ELSE [o EXCEPT !.lower_ = @ + t.w]
             ELSE [o EXCEPT !.weight_ = o.lower_ + o.upper_ + t.w,
                            !.wastrunk = FALSE,
                            !.trunkoff = IF T # 0 /\ end > T THEN end ELSE @]
    ELSE s

(* lines 269-289: evaluate trunks; j is the tag's offset, end the end of *)
(* its payload                                                           *)
FetchTrunk(s, T, t, j, end) ==
    IF Field(t.tag, 13, 2) # 1 /\ (T = 0 \/ T >= j \/ s.wastrunk)
    THEN LET o == IF ~s.wastrunk
                  THEN [s EXCEPT !.trunk__ = j, !.lower_ = 0, !.upper_ = 0,
                                 !.wastrunk = TRUE]
                  ELSE s
         IN  IF IsAlt(t.tag)
             THEN IF Field(t.tag, 13, 1) = 1
                  THEN [o EXCEPT !.upper_ = @ + t.w]
                  ELSE [o EXCEPT !.lower_ = @ + t.w]
             ELSE [o EXCEPT !.weight_ = o.lower_ + o.upper_ + t.w,
                            !.wastrunk = FALSE,
                            !.trunkoff = IF T # 0 /\ end > T THEN end ELSE @]
    ELSE s

(* TagValid with a slip: the valid bit is not looked at *)
TagValid_unchecked(t, crc_) == t.v \in {0, 1}

(* line 247: the header's valid bit is the parity of the running CRC *)
TagValid(t, crc_) == t.v = popc(crc_) % 2

(* CrcMatches with a slip: the low byte of the CRC is not compared *)
CrcMatches_high(bytes, j, crc_) ==
    crc_ \ (0 .. 7) = fromle32(PySlice(bytes, j, j + 4)) \ (0 .. 7)

(* lines 260-261: the stored CRC is the running CRC *)
CrcMatches(bytes, j, crc_) == crc_ = fromle32(PySlice(bytes, j, j + 4))

(* lines 245-292: one turn of the scan loop. at = "done": the loop has   *)
(* ended (its condition, or a break); at = "raise": fromtag raised       *)
(* IndexError.                                                           *)
FetchBody(bytes, T, s) ==
    IF ~(s.j_ < Len(bytes) /\ (T = 0 \/ s.off <= T))
    THEN [s EXCEPT !.at = "done"]
    ELSE IF TagRaises(PyFrom(bytes, s.j_))
    THEN [s EXCEPT !.at = "raise"]
    ELSE
    LET t == fromtag(PyFrom(bytes, s.j_))
        j1 == s.j_ + t.d
        crc1 == crc32c(PySlice(bytes, s.j_, j1), s.crc_)
        alt == IsAlt(t.tag)
        iscrc == ~alt /\ IsCrc(t.tag)
        end == j1 + t.size
    IN  IF ~TagValid(t, s.crc_)
        THEN [s EXCEPT !.at = "done"]
        ELSE IF ~alt /\ end > Len(bytes)
        THEN [s EXCEPT !.crc_ = crc1, !.j_ = j1, !.at = "done"]
        ELSE IF iscrc /\ ~CrcMatches(bytes, j1, crc1)
        THEN [s EXCEPT !.crc_ = crc1, !.j_ = j1, !.at = "done"]
        ELSE
        LET crc2 == IF ~alt /\ ~iscrc
                    THEN crc32c(PySlice(bytes, j1, end), crc1)
                    ELSE crc1
            s1 == IF iscrc THEN [FetchCommit(s, end) EXCEPT !.crc = crc1]
                           ELSE s
            s2 == FetchTrunk(s1, T, t, s.j_, end)
        IN  [s2 EXCEPT !.crc_ = crc2, !.j_ = IF alt THEN j1 ELSE end]

(* line 294, and Rbyd.__init__, lines 180-187 *)
Rbyd(block, s) ==
    [block |-> block, rev |-> s.rev, off |-> s.off, trunk |-> s.trunk_,
     weight |-> s.weight, other_blocks |-> << >>]

(* the scan loop run to its end *)
RECURSIVE FetchLoop(_, _, _)
FetchLoop(bytes, T, s) ==
    IF s.at # "scan" THEN s ELSE FetchLoop(bytes, T, FetchBody(bytes, T, s))

(* lines 356-357 *)
RbydBool(rbyd) == rbyd.trunk # 0

--------------------------------------------------------------------------
(* Rbyd.lookup, lines 296-354 *)

(* Python's (a, b) < (c, d) *)
PairLess(a, b, c, d) == a < c \/ (a = c /\ b < d)

(* lines 300-305: the locals before the descent *)
LookupInit(rbyd) ==
    [lower |-> -1, upper |-> rbyd.weight, path |-> << >>, j |-> rbyd.trunk,
     at |-> "descend"]

(* LookupFollow with a slip: an altle is followed only by a key below its *)
(* own                                                                    *)
LookupFollow_strict(s, t, id, tag) ==
    IF Field(t.tag, 13, 1) = 1
    THEN PairLess(s.upper - t.w - 1, t.tag % 4096, id, tag % 4096)
    ELSE PairLess(id, tag % 4096, s.lower + t.w, t.tag % 4096)

(* lines 312-315: follow the alt? *)
LookupFollow(s, t, id, tag) ==
    IF Field(t.tag, 13, 1) = 1
    THEN PairLess(s.upper - t.w - 1, t.tag % 4096, id, tag % 4096)
    ELSE ~PairLess(s.lower + t.w, t.tag % 4096, id, tag % 4096)

(* lines 320-328 and 336-344: the colour of the edge taken at an alt; next *)
(* is the offset of the tag after the alt                                  *)
LookupColor(bytes, t, next) ==
    IF Field(t.tag, 12, 1) = 1
    THEN IF Field(fromtag(PyFrom(bytes, next)).tag, 12, 1) = 1 THEN "y"
                                                                ELSE "r"
    ELSE "b"

(* LookupAlt with a slip: an alt followed does not narrow the range *)
LookupAlt_wide(s, t, follow, gt, c) ==
    IF follow
    THEN [s EXCEPT
            !.j = s.j - t.size,
            !.path = Append(@, <<s.j, s.j - t.size, TRUE, c>>)]
    ELSE [s EXCEPT
            !.lower = IF ~gt THEN @ + t.w ELSE @,
            !.upper = IF gt THEN @ - t.w ELSE @,
            !.j = s.j + t.d,
            !.path = Append(@, <<s.j, s.j + t.d, FALSE, c>>)]

(* lines 308-354: the turn of the descent at the tag t, c the colour of *)
(* the edge if t is an alt                                             *)
LookupAlt(s, t, follow, gt, c) ==
    IF follow
    THEN [s EXCEPT
            !.lower = IF gt THEN @ + (s.upper - s.lower - 1 - t.w) ELSE @,
            !.upper = IF ~gt THEN @ - (s.upper - s.lower - 1 - t.w) ELSE @,
            !.j = s.j - t.size,
            !.path = Append(@, <<s.j, s.j - t.size, TRUE, c>>)]
    ELSE [s EXCEPT
            !.lower = IF ~gt THEN @ + t.w ELSE @,
            !.upper = IF gt THEN @ - t.w ELSE @,
            !.j = s.j + t.d,
            !.path = Append(@, <<s.j, s.j + t.d, FALSE, c>>)]
(* LookupTag with a slip: done is reported for a removed tag only *)
LookupTag_unr(bytes, id, tag, s, t) ==
    IF IsAlt(t.tag)
    THEN IF Field(t.tag, 12, 1) = 1 /\ TagRaises(PyFrom(bytes, s.j + t.d))
         THEN [s EXCEPT !.at = "raise"]
         ELSE LookupAlt(s, t, LookupFollow(s, t, id, tag),
                        Field(t.tag, 13, 1) = 1,
                        LookupColor(bytes, t, s.j + t.d))
    ELSE [at |-> "done",
          done |-> Field(t.tag, 12, 1) = 1,
          id |-> s.upper - 1, tag |-> t.tag, w |-> s.upper - 1 - s.lower,
          j |-> s.j, d |-> t.d,
          data |-> PySlice(bytes, s.j + t.d, s.j + t.d + t.size),
          path |-> s.path]

LookupTag(bytes, id, tag, s, t) ==
    IF IsAlt(t.tag)
    THEN IF Field(t.tag, 12, 1) = 1 /\ TagRaises(PyFrom(bytes, s.j + t.d))
         THEN [s EXCEPT !.at = "raise"]
         ELSE LookupAlt(s, t, LookupFollow(s, t, id, tag),
                        Field(t.tag, 13, 1) = 1,
                        LookupColor(bytes, t, s.j + t.d))
    ELSE [at |-> "done",
          done |-> PairLess(s.upper - 1, t.tag, id, tag)
                      \/ Field(t.tag, 12, 1) = 1,
          id |-> s.upper - 1, tag |-> t.tag, w |-> s.upper - 1 - s.lower,
          j |-> s.j, d |-> t.d,
          data |-> PySlice(bytes, s.j + t.d, s.j + t.d + t.size),
          path |-> s.path]

(* lines 306-354: one turn of the descent.  at = "done": a tag was found *)
(* and res is what lookup returns; at = "raise": fromtag raised          *)
(* IndexError.                                                           *)
LookupBody(bytes, id, tag, s) ==
    IF TagRaises(PyFrom(bytes, s.j))
    THEN [s EXCEPT !.at = "raise"]
    ELSE LookupTag(bytes, id, tag, s, fromtag(PyFrom(bytes, s.j)))

RECURSIVE LookupLoop(_, _, _, _)
LookupLoop(bytes, id, tag, s) ==
    IF s.at # "descend" THEN s
    ELSE LookupLoop(bytes, id, tag, LookupBody(bytes, id, tag, s))

(* lines 296-354; bytes is the rbyd's data *)
Lookup(rbyd, bytes, id, tag) ==
    IF ~RbydBool(rbyd)
    THEN [at |-> "done", done |-> TRUE, id |-> 0, tag |-> -1, w |-> 0,
          j |-> 0, d |-> 0, data |-> << >>, path |-> << >>]
    ELSE LookupLoop(bytes, id, tag, LookupInit(rbyd))

--------------------------------------------------------------------------
(* The disk images the program is run on.  A block is written as the      *)
(* format that fetch reads back demands: 4 bytes of revision count, then  *)
(* records, each a header (valid bit = parity of the running CRC, tag,    *)
(* leb128 weight, leb128 size) and, unless it is an alt, size bytes of    *)
(* payload; a CRC record's payload is the running CRC.                    *)

(* the inverse of fromleb128 *)
RECURSIVE toleb128(_)
toleb128(x) ==
    IF x < 128 THEN <<x>> ELSE <<128 + (x % 128)>> \o toleb128(x \div 128)

(* the inverse of fromle32 *)
BitsByte(word, k) ==
    (IF 8 * k \in word THEN 1 ELSE 0) + (IF 8 * k + 1 \in word THEN 2 ELSE 0)
    + (IF 8 * k + 2 \in word THEN 4 ELSE 0) + (IF 8 * k + 3 \in word THEN 8 ELSE 0)
    + (IF 8 * k + 4 \in word THEN 16 ELSE 0) + (IF 8 * k + 5 \in word THEN 32 ELSE 0)
    + (IF 8 * k + 6 \in word THEN 64 ELSE 0) + (IF 8 * k + 7 \in word THEN 128 ELSE 0)
tole32(word) == [k \in 1 .. 4 |-> BitsByte(word, k - 1)]

(* the inverse of fromtag *)
totag(v, tag, w, size) ==
    <<v * 128 + (tag \div 256), tag % 256>> \o toleb128(w) \o toleb128(size)

(* A record to write: tag, w, size, payload, and what is wrong with it:   *)
(* "" nothing, "crc" a CRC record whose stored value is off by one bit,   *)
(* "valid" a header whose valid bit is flipped, "raw" no record at all    *)
(* but the payload bytes as they are.                                     *)
Rec(tag, w, size, payload, fault) ==
    [tag |-> tag, w |-> w, size |-> size, payload |-> payload, fault |-> fault]

(* one record appended to the block e = [bytes, crc, offs] *)
EncodeRec(e, r) ==
    IF r.fault = "raw"
    THEN [e EXCEPT !.bytes = @ \o r.payload, !.offs = Append(@, Len(e.bytes)),
                   !.crcs = Append(@, e.crc)]
    ELSE
    LET parity == popc(e.crc) % 2
        v == IF r.fault = "valid" THEN 1 - parity ELSE parity
        hdr == totag(v, r.tag, r.w, r.size)
        crc1 == crc32c(hdr, e.crc)
        stored == IF r.fault = "crc" THEN Xor(crc1, {0}) ELSE crc1
        payload == IF IsAlt(r.tag) THEN << >>
                   ELSE IF IsCrc(r.tag) THEN tole32(stored)
                   ELSE r.payload
        crc2 == IF IsAlt(r.tag) \/ IsCrc(r.tag) THEN crc1
                ELSE crc32c(payload, crc1)
    IN  [bytes |-> e.bytes \o hdr \o payload, crc |-> crc2,
         offs |-> Append(e.offs, Len(e.bytes)), crcs |-> Append(e.crcs, e.crc)]

RECURSIVE EncodeRecs(_, _, _)
EncodeRecs(e, recs, k) ==
    IF k > Len(recs) THEN e
    ELSE LET e2 == EncodeRec(e, recs[k])
         IN  IF e2.bytes = << >> THEN e2 ELSE EncodeRecs(e2, recs, k + 1)

(* a block: bytes, the writer's running CRC, and for each record its    *)
(* offset (offs) and the running CRC before it (crcs)                    *)
EncodeBlock(rev, recs) ==
    EncodeRecs([bytes |-> rev, crc |-> crc32c(rev, {}), offs |-> << >>,
                crcs |-> << >>], recs, 1)

--------------------------------------------------------------------------
(* Fetching one block, step by step.                                      *)

MaxRecs == 4
MaxCut == 4

(* The records a block is drawn from.  The block is written record by    *)
(* record and read with a block size that may cut it short: every record *)
(* is whole but the last one read, so the scan stays aligned with the    *)
(* records and every varint it decodes is below 2^31 (TLC stops with an  *)
(* overflow error on one that is not).                                   *)
Kinds == {"altle", "altgt", "tag", "crc", "badcrc", "badvalid"}
KindRec(kind) ==
    CASE kind = "altle" -> Rec(TAG_ALT + 257, 1, 4, << >>, "")
      [] kind = "altgt" -> Rec(TAG_ALT + 8192 + 257, 200, 4, << >>, "")
      [] kind = "tag" -> Rec(TAG_REG, 3, 1, <<97>>, "")
      [] kind = "crc" -> Rec(TAG_CRC, 0, 4, << >>, "")
      [] kind = "badcrc" -> Rec(TAG_CRC, 0, 4, << >>, "crc")
      [] kind = "badvalid" -> Rec(TAG_REG, 3, 1, <<97>>, "valid")
      [] kind = "stop" -> Rec(0, 0, 0, << >>, "valid")
KindRecs(kinds) == [k \in 1 .. Len(kinds) |-> KindRec(kinds[k])]

Rev0 == <<1, 0, 0, 0>>

InitFetch ==
    /\ \E n \in 0 .. MaxRecs : \E kinds \in [1 .. n -> Kinds] :
        \E e \in {EncodeBlock(Rev0, KindRecs(kinds))} : \E cut \in 0 .. MaxCut :
            /\ gen = [kinds |-> kinds, cut |-> cut, offs |-> e.offs,
                      crcs |-> e.crcs]
            /\ f = e.bytes
            /\ block_size = Max(Len(f) - cut, 0)
    /\ blocks = <<0>>
    /\ trunk = 0
    /\ data = << >>
    /\ scan = [at |-> "start"]
    /\ ret = [block |-> 0]
    /\ rbyds = << >> /\ mi = 0 /\ mi_ = 0
    /\ BtreeIdle
    /\ IterIdle
    /\ pc = "fetch"

(* lines 199-244: the block is read and the scan set up *)
FetchStart ==
    /\ pc = "fetch"
    /\ data' = ReadBlock(f, block_size, blocks[1])
    /\ scan' = FetchInit(data')
    /\ pc' = "scan"
    /\ UNCHANGED <<f, block_size, gen, blocks, trunk, ret, mirrorVars, btreeVars,
                   iterVars>>

(* lines 245-294: one turn of the scan loop; when the loop ends the Rbyd *)
(* is returned, and an IndexError leaves fetch without one               *)
FetchScan ==
    /\ pc = "scan"
    /\ scan' = FetchBody(data, trunk, scan)
    /\ pc' = scan'.at
    /\ ret' = IF scan'.at = "done" THEN Rbyd(blocks[1], scan') ELSE ret
    /\ UNCHANGED <<f, block_size, gen, blocks, trunk, data, mirrorVars, btreeVars,
                   iterVars>>

NextFetch == FetchStart \/ FetchScan

SpecFetch == InitFetch /\ [][NextFetch]_vars

--------------------------------------------------------------------------
(* What the block drawn holds, read off the records it was written from.  *)

NRecs == Len(gen.kinds)
RecOff(i) == gen.offs[i]
RecEnd(i) == IF i < NRecs THEN gen.offs[i + 1] ELSE Len(f)
(* record i lies whole inside the block read *)
RecWhole(i) == RecEnd(i) <= block_size
(* the first record the scan cannot get past: a CRC record with a wrong *)
(* CRC, a header with a wrong valid bit, a record cut by the block's end *)
RecStop ==
    LET bad == {i \in 1 .. NRecs :
                    gen.kinds[i] \in {"badcrc", "badvalid"} \/ ~RecWhole(i)}
    IN  IF bad = {} THEN NRecs + 1
        ELSE CHOOSE i \in bad : \A k \in bad : i <= k
(* the valid commits: the CRC records before it *)
Commits == {i \in 1 .. RecStop - 1 : gen.kinds[i] = "crc"}
SetMax(S) == CHOOSE i \in S : \A k \in S : k <= i
SetMin(S) == CHOOSE i \in S : \A k \in S : i <= k
LastCommit == SetMax(Commits)

(* Trunks: a trunk opens at the first alt or tag after the last trunk    *)
(* closed, and closes at its first tag.                                  *)
RecInTrunk(i) == gen.kinds[i] \in {"altle", "altgt", "tag"}
RecCloses(i) == gen.kinds[i] = "tag"
(* the record that opens the trunk record i belongs to *)
TrunkOpen(i) ==
    LET closed == {e \in 1 .. i - 1 : RecCloses(e)}
        from == IF closed = {} THEN 1 ELSE SetMax(closed) + 1
    IN  SetMin({m \in from .. i : RecInTrunk(m)})
RECURSIVE SumW(_, _)
SumW(from, to) ==
    IF from > to THEN 0
    ELSE (IF RecInTrunk(from) THEN KindRec(gen.kinds[from]).w ELSE 0)
         + SumW(from + 1, to)
(* the last trunk closed before record c: the offset it starts at and its *)
(* weight, 0 and 0 when there is none                                      *)
ClosedBefore(c) ==
    LET closed == {e \in 1 .. c - 1 : RecCloses(e)}
    IN  IF closed = {} THEN [trunk |-> 0, weight |-> 0]
        ELSE LET e == SetMax(closed)
             IN  [trunk |-> RecOff(TrunkOpen(e)),
                  weight |-> SumW(TrunkOpen(e), e)]
(* the offset of the last trunk opened before record c, 0 when none *)
OpenedBefore(c) ==
    LET in == {m \in 1 .. c - 1 : RecInTrunk(m)}
    IN  IF in = {} THEN 0 ELSE RecOff(TrunkOpen(SetMax(in)))

(* fetch, with no requested trunk, of the first n bytes of the block *)
FetchOfPrefix(n) ==
    LET bytes == PySlice(f, 0, Min(Max(n, 4), block_size))
    IN  Rbyd(blocks[1], FetchLoop(bytes, 0, FetchInit(bytes)))

Returned == pc = "done"

--------------------------------------------------------------------------
(* C1, as stated: when the block holds k >= 1 valid commits, fetch       *)
(* returns the trunk and the weight of the last trunk closed before the  *)
(* k-th (last) valid CRC record and off is the end of that record.       *)
C1_LastClosedTrunk ==
    (Returned /\ trunk = 0 /\ Commits # {}) =>
        /\ ret.off = RecEnd(LastCommit)
        /\ ret.weight = ClosedBefore(LastCommit).weight
        /\ ret.trunk = ClosedBefore(LastCommit).trunk

(* C1, amended: the weight is that of the last trunk closed before the   *)
(* last valid CRC record, the trunk is the start of the last trunk       *)
(* opened before it (the same trunk unless alts not yet followed by a    *)
(* tag precede the record), off is the end of that record: an earlier    *)
(* commit's values are never returned while a later valid commit exists. *)
C1_LastCommit ==
    (Returned /\ trunk = 0 /\ Commits # {}) =>
        /\ ret.off = RecEnd(LastCommit)
        /\ ret.weight = ClosedBefore(LastCommit).weight
        /\ ret.trunk = OpenedBefore(LastCommit)

(* two valid commits, each with a trunk of its own: the second is returned *)
C1_Witness ==
    /\ Returned
    /\ Cardinality(Commits) >= 2
    /\ ClosedBefore(SetMin(Commits)).trunk # 0
    /\ ClosedBefore(LastCommit).trunk >= RecEnd(SetMin(Commits))
    /\ ret.trunk = ClosedBefore(LastCommit).trunk
    /\ ret.off = RecEnd(LastCommit)

(* C2: when a CRC record's stored value differs from the running CRC the *)
(* scan stops at that record, and what fetch returns is what it returns  *)
(* for the block cut after its last valid commit: nothing written after  *)
(* that commit changes the trunk, the weight or off.                     *)
C2_CrcMismatchStops ==
    (Returned /\ trunk = 0 /\ RecStop <= NRecs
        /\ gen.kinds[RecStop] = "badcrc" /\ RecWhole(RecStop)) =>
        /\ scan.j_ = RecOff(RecStop) + 4
        /\ ret.off = IF Commits = {} THEN 0 ELSE RecEnd(LastCommit)
        /\ ret = FetchOfPrefix(ret.off)
        /\ ret.weight = ClosedBefore(IF Commits = {} THEN 1 ELSE LastCommit).weight

(* a valid commit, then a trunk and a CRC record with a wrong CRC: the  *)
(* first commit is returned                                              *)
C2_Witness ==
    /\ Returned
    /\ RecStop <= NRecs /\ gen.kinds[RecStop] = "badcrc" /\ RecWhole(RecStop)
    /\ Commits # {}
    /\ \E m \in LastCommit + 1 .. RecStop - 1 : RecCloses(m)
    /\ ret.trunk # 0
    /\ ret.off = RecEnd(LastCommit)

(* C3: the scan stops at the first header whose valid bit differs from   *)
(* the parity of the running CRC: the scan position stays at that header,*)
(* the running CRC is the one before it, and what fetch returns is what  *)
(* it returns for the block cut at that header, whatever follows it.     *)
C3_ValidBitStops ==
    (Returned /\ trunk = 0 /\ RecStop <= NRecs
        /\ gen.kinds[RecStop] = "badvalid"
        /\ RecOff(RecStop) + 2 <= block_size) =>
        /\ scan.j_ = RecOff(RecStop)
        /\ scan.crc_ = gen.crcs[RecStop]
        /\ ret = FetchOfPrefix(RecOff(RecStop))
        /\ ret.off = IF Commits = {} THEN 0 ELSE RecEnd(LastCommit)

(* a valid commit, a header with a wrong valid bit, then a CRC record   *)
(* that is well-formed for the writer: the first commit is returned     *)
C3_Witness ==
    /\ Returned
    /\ RecStop < NRecs /\ gen.kinds[RecStop] = "badvalid"
    /\ Commits # {}
    /\ \E m \in RecStop + 1 .. NRecs : gen.kinds[m] = "crc" /\ RecWhole(m)
    /\ ret.trunk # 0
    /\ ret.off = RecEnd(LastCommit)

(* C4: a block in which no CRC record validates is fetched, without an  *)
(* error, as the node with trunk = 0, weight = 0, off = 0, which is     *)
(* falsy; lookup on it returns done with an empty payload and path.     *)
C4_NoCommitFalsy ==
    (pc \in {"done", "raise"} /\ trunk = 0 /\ Commits = {}) =>
        /\ Returned
        /\ ret.trunk = 0 /\ ret.weight = 0 /\ ret.off = 0
        /\ ~RbydBool(ret)
        /\ \A id \in -1 .. 1 : \A tag \in {0, 1, TAG_REG} :
            LET r == Lookup(ret, data, id, tag)
            IN  r.at = "done" /\ r.done /\ r.data = << >> /\ r.path = << >>

(* C5: fetch returns a node for every block content and block size, and *)
(* never raises: a header that does not fit in the bytes left stops the *)
(* scan, and the last good commit, or the falsy node, is returned.      *)
C5_NeverRaises ==
    (pc \in {"done", "raise"} /\ trunk = 0) =>
        /\ Returned
        /\ ret.off = IF Commits = {} THEN 0 ELSE RecEnd(LastCommit)
        /\ Commits = {} => ~RbydBool(ret)

--------------------------------------------------------------------------
(* Rbyd.fetch, mirrored blocks: lines 203-219 *)

(* the borrow into byte k of a - b, and bit 31 of (a - b) mod 2^32: the *)
(* test (rbyd.rev - rbyds[i].rev) & 0x80000000 of line 211              *)
RECURSIVE SubBorrow(_, _, _)
SubBorrow(a, b, k) ==
    IF k = 0 THEN 0
    ELSE IF BitsByte(a, k - 1) - BitsByte(b, k - 1) - SubBorrow(a, b, k - 1) < 0
         THEN 1 ELSE 0

(* a slip: the revisions compared as plain unsigned numbers *)
Sub32Top_unsigned(a, b) == SubBorrow(a, b, 4) = 1

Sub32Top(a, b) ==
    (256 + BitsByte(a, 3) - BitsByte(b, 3) - SubBorrow(a, b, 3)) % 256 >= 128

(* lines 210-213: the copy rbyd is taken over the current choice cur *)
MirrorPrefer(rbyd, cur) ==
    /\ RbydBool(rbyd)
    /\ \/ ~Sub32Top(rbyd.rev, cur.rev)
       \/ (rbyd.rev = cur.rev /\ rbyd.trunk > cur.trunk)

(* line 205: the fetch of one block of the list, run to its end *)
FetchBlock(bytes, block, T) ==
    [s |-> FetchLoop(bytes, T, FetchInit(bytes)), block |-> block]
FetchOne(file, bsize, block, T) ==
    FetchBlock(ReadBlock(file, bsize, block), block, T)

(* lines 217-218 *)
OtherBlocks(rs, i) ==
    [j \in 1 .. Len(rs) - 1 |-> rs[((i + 1 + (j - 1)) % Len(rs)) + 1].block]

(* The mirrored pairs the program is run on: two blocks of one size,    *)
(* each a revision count, records, a header whose valid bit stops the   *)
(* scan, and zeros up to the block size.                                *)
MirrorRevs ==
    {<<0, 0, 0, 0>>, <<1, 0, 0, 0>>, <<255, 0, 0, 0>>, <<0, 1, 0, 0>>,
     <<255, 255, 255, 127>>, <<0, 0, 0, 128>>, <<254, 255, 255, 255>>,
     <<255, 255, 255, 255>>}
MirrorKinds ==
    {<<"tag", "crc">>, <<"altle", "tag", "crc">>,
     <<"tag", "crc", "tag", "crc">>, << >>, <<"tag", "badcrc">>}
MirrorBlock(rev, kinds) ==
    EncodeBlock(rev, KindRecs(kinds \o <<"stop">>)).bytes
PadTo(bytes, n) == bytes \o [k \in 1 .. n - Len(bytes) |-> 0]

InitMirror ==
    /\ \E r0 \in MirrorRevs : \E k0 \in MirrorKinds :
        \E b0 \in {MirrorBlock(r0, k0)} :
        \E r1 \in MirrorRevs : \E k1 \in MirrorKinds :
        \E b1 \in {MirrorBlock(r1, k1)} :
            /\ gen = [revs |-> <<r0, r1>>, kinds |-> <<k0, k1>>]
            /\ block_size = Max(Len(b0), Len(b1))
            /\ f = PadTo(b0, block_size) \o PadTo(b1, block_size)
    /\ blocks \in {<<0, 1>>, <<1, 0>>}
    /\ trunk = 0
    /\ data = << >>
    /\ scan = [at |-> "start"]
    /\ ret = [block |-> 0]
    /\ rbyds = << >> /\ mi = 0 /\ mi_ = 0
    /\ BtreeIdle
    /\ IterIdle
    /\ pc = "fetch"

(* lines 203-207: every block of the list is fetched; an IndexError of *)
(* one of the fetches leaves this fetch too                            *)
MirrorFetchAll ==
    /\ pc = "fetch"
    /\ Len(blocks) > 1
    /\ LET rs == [k \in 1 .. Len(blocks) |->
                     FetchOne(f, block_size, blocks[k], trunk)]
       IN  IF \E k \in 1 .. Len(blocks) : rs[k].s.at = "raise"
           THEN pc' = "raise" /\ UNCHANGED rbyds
           ELSE /\ pc' = "pick"
                /\ rbyds' = [k \in 1 .. Len(blocks) |-> Rbyd(rs[k].block, rs[k].s)]
    /\ mi' = 0
    /\ mi_' = 0
    /\ UNCHANGED <<f, block_size, gen, blocks, trunk, scanVars, ret, btreeVars,
                   iterVars>>

(* lines 208-214: one turn of the loop over the fetched copies *)
MirrorPick ==
    /\ pc = "pick"
    /\ mi_ < Len(rbyds)
    /\ mi' = IF MirrorPrefer(rbyds[mi_ + 1], rbyds[mi + 1]) THEN mi_ ELSE mi
    /\ mi_' = mi_ + 1
    /\ UNCHANGED <<f, block_size, gen, blocks, trunk, scanVars, ret, rbyds, pc,
                   btreeVars, iterVars>>

(* lines 216-219 *)
MirrorReturn ==
    /\ pc = "pick"
    /\ mi_ = Len(rbyds)
    /\ ret' = [rbyds[mi + 1] EXCEPT !.other_blocks = OtherBlocks(rbyds, mi)]
    /\ pc' = "done"
    /\ UNCHANGED <<f, block_size, gen, blocks, trunk, scanVars, mirrorVars,
                   btreeVars, iterVars>>

NextMirror == MirrorFetchAll \/ MirrorPick \/ MirrorReturn

SpecMirror == InitMirror /\ [][NextMirror]_vars

--------------------------------------------------------------------------
(* What the mirrored pair was written as *)

(* the revision count after rev, mod 2^32, on its four bytes *)
RECURSIVE RevNext(_)
RevNext(rev) ==
    IF rev = << >> THEN << >>
    ELSE IF rev[1] = 255 THEN <<0>> \o RevNext(Tail(rev))
    ELSE <<rev[1] + 1>> \o Tail(rev)

(* both copies hold a valid commit *)
BothCommitted ==
    /\ Len(rbyds) = 2
    /\ \A k \in 1 .. 2 : RbydBool(rbyds[k])

(* the copy of block b as it was fetched *)
CopyOf(b) == rbyds[CHOOSE k \in 1 .. 2 : blocks[k] = b]

(* C6: on a mirrored pair whose copies both hold a valid commit, with  *)
(* revisions r and r+1 mod 2^32 (r = 2^32-1 wrapping to 0 included),   *)
(* fetch returns the copy with revision r+1 in both orders of the      *)
(* block list, and other_blocks is the address of the other copy.      *)
C6_NextRevisionWins ==
    (Returned /\ BothCommitted) =>
        \A b \in 0 .. 1 :
            gen.revs[b + 1] = RevNext(gen.revs[2 - b]) =>
                /\ ret.block = b
                /\ ret.rev = fromle32(gen.revs[b + 1])
                /\ ret.trunk = CopyOf(b).trunk
                /\ ret.weight = CopyOf(b).weight
                /\ ret.other_blocks = <<1 - b>>

(* the revision wraps from 2^32-1 to 0, the copy with revision 0 is  *)
(* listed first and is the one returned                              *)
C6_Witness ==
    /\ Returned /\ BothCommitted
    /\ gen.revs = <<<<255, 255, 255, 255>>, <<0, 0, 0, 0>>>>
    /\ blocks = <<1, 0>>
    /\ ret.block = 1
    /\ ret.other_blocks = <<0>>

(* C7: on mirrored blocks that all hold a valid commit of one revision *)
(* fetch returns the copy with the larger trunk, whichever position it *)
(* has in the block list.                                              *)
C7_LargerTrunkWins ==
    (Returned /\ BothCommitted /\ rbyds[1].rev = rbyds[2].rev) =>
        ret.trunk = Max(rbyds[1].trunk, rbyds[2].trunk)

(* C18: on mirrored blocks of which at least one fetches as a truthy  *)
(* node, the node fetch returns for the list is truthy, in every order *)
(* of the list and for all revisions, also when the block listed first *)
(* holds no valid commit and a later revision than its mirror.         *)
C18_TruthyMirrorWins ==
    (Returned /\ \E k \in 1 .. Len(rbyds) : RbydBool(rbyds[k])) =>
        RbydBool(ret)

--------------------------------------------------------------------------
(* main.btree_lookup, lines 497-549 *)

(* what btree_lookup returns: done, bid, w, rbyd, rid, tags, path *)
BtreeResult(done, bid_, w, rbyd, rid, tags, path) ==
    [at |-> "return", done |-> done, bid |-> bid_, w |-> w, rbyd |-> rbyd,
     rid |-> rid, tags |-> tags, path |-> path]

(* lines 510-530: the loop that collects the tags of the entry of rid_; *)
(* s holds i, rid_, tag, w, tags and branch (<< >>: None), r is what    *)
(* rbyd.lookup returned in this turn                                    *)
RECURSIVE BtreeTags(_, _, _)
BtreeTagsTurn(rbyd, bytes, s, r) ==
    IF r.at = "raise" THEN [s EXCEPT !.at = "raise"]
    ELSE IF r.done \/ (s.i # 0 /\ r.id # s.rid_) THEN [s EXCEPT !.at = "break"]
    ELSE BtreeTags(rbyd, bytes,
            [i |-> s.i + 1,
             rid_ |-> IF s.i = 0 THEN r.id ELSE s.rid_,
             w |-> IF s.i = 0 THEN r.w ELSE s.w,
             tag |-> r.tag,
             tags |-> Append(s.tags, <<r.tag, r.j, r.d, r.data>>),
             branch |-> IF r.tag = TAG_BTREE
                        THEN <<r.tag, r.j, r.d, r.data>> ELSE s.branch,
             at |-> "loop"])
BtreeTags(rbyd, bytes, s) ==
    BtreeTagsTurn(rbyd, bytes, s, Lookup(rbyd, bytes, s.rid_, s.tag + 1))

(* a slip in BtreeRid: the branch's first rid taken one too low *)
BtreeRid_low(rid, rid_, w) == rid - (rid_ - w)

(* line 546: rid -= (rid_-(w-1)) *)
BtreeRid(rid, rid_, w) == rid - (rid_ - (w - 1))

(* a slip in BtreeCorrupt: the dangling branch returned as the end of *)
(* the tree                                                           *)
BtreeCorrupt_done(bid_, w, rbyd, path) ==
    BtreeResult(TRUE, bid_, w, rbyd, -1, << >>, path)

(* line 544: the child is falsy *)
BtreeCorrupt(bid_, w, rbyd, path) ==
    BtreeResult(FALSE, bid_, w, rbyd, -1, << >>, path)

(* lines 507-549: the descent from the level s = [rbyd, rid, depth_, *)
(* path] down; file and bsize are main's f and block_size, t the tags *)
(* collected at this level, path the path with this level, p the      *)
(* branch decoded and c its child fetched                             *)
RECURSIVE BtreeDescend(_, _, _, _, _)
BtreeFollow(file, bsize, b, dp, s, t, path, c) ==
    IF c.s.at = "raise" THEN [at |-> "raise"]
    ELSE IF ~RbydBool(Rbyd(c.block, c.s))
    THEN BtreeCorrupt(b + (t.rid_ - s.rid), t.w, Rbyd(c.block, c.s), path)
    ELSE BtreeDescend(file, bsize, b, dp,
            [rbyd |-> Rbyd(c.block, c.s),
             rid |-> BtreeRid(s.rid, t.rid_, t.w),
             depth_ |-> s.depth_ + 1,
             path |-> path])
BtreeBranch(file, bsize, b, dp, s, t, path, p) ==
    BtreeFollow(file, bsize, b, dp, s, t, path,
                FetchOne(file, bsize, p.block, p.trunk))
(* BtreeLevel with a slip: the level of the depth limit is left too *)
BtreeLevel_deep(file, bsize, b, dp, s, t, path) ==
    IF t.at = "raise" THEN [at |-> "raise"]
    ELSE IF t.branch # << >> /\ (dp = 0 \/ s.depth_ <= dp)
    THEN BtreeBranch(file, bsize, b, dp, s, t, path, frombtree(t.branch[4]))
    ELSE BtreeResult(t.tags = << >>, b + (t.rid_ - s.rid), t.w, s.rbyd,
                     t.rid_, t.tags, path)

(* lines 535-549: descend down the branch, or return the entry *)
BtreeLevel(file, bsize, b, dp, s, t, path) ==
    IF t.at = "raise" THEN [at |-> "raise"]
    ELSE IF t.branch # << >> /\ (dp = 0 \/ s.depth_ < dp)
    THEN BtreeBranch(file, bsize, b, dp, s, t, path, frombtree(t.branch[4]))
    ELSE BtreeResult(t.tags = << >>, b + (t.rid_ - s.rid), t.w, s.rbyd,
                     t.rid_, t.tags, path)
BtreePath(file, bsize, b, dp, s, t) ==
    BtreeLevel(file, bsize, b, dp, s, t,
               Append(s.path, <<b + (t.rid_ - s.rid), t.w, s.rbyd, t.rid_,
                                t.tags>>))
BtreeDescend(file, bsize, b, dp, s) ==
    BtreePath(file, bsize, b, dp, s,
              BtreeTags(s.rbyd, ReadBlock(file, bsize, s.rbyd.block),
                        [i |-> 0, rid_ |-> s.rid, w |-> 0, tag |-> 0,
                         tags |-> << >>, branch |-> << >>, at |-> "loop"]))

(* lines 497-549; root is main's btree *)
BtreeLookup(file, bsize, root, b, dp) ==
    IF ~RbydBool(root)
    THEN BtreeResult(b > 0, b, 0, root, -1, << >>, << >>)
    ELSE BtreeDescend(file, bsize, b, dp,
            [rbyd |-> root, rid |-> b, depth_ |-> 1, path |-> << >>])

--------------------------------------------------------------------------
(* The B-trees the program is run on.  A node is a sequence of entries, *)
(* an entry a leaf of weight w or a branch to a child node.  A node is  *)
(* written to a block of its own as one commit, in one of two layouts   *)
(* that alternate from block to block.  In the first, per tag appended  *)
(* an altle to the trunk before it (none for the first) and the tag,    *)
(* the first tag of an entry carrying the entry's weight; a branch's    *)
(* data is what frombtree reads.  A branch may be at fault: "bw" records a   *)
(* weight one above the child's, "bcrc" a CRC one bit off the child's,  *)
(* "dead" points at a child whose commit does not validate and "gone"   *)
(* at a block past the end of the disk.                                 *)

MaxEntries == 2
Weights == {1, 2}
Faults == {"", "bw", "bcrc", "dead", "gone"}

RECURSIVE NodeWeight(_)
NodeWeight(node) ==
    IF node = << >> THEN 0 ELSE node[1].w + NodeWeight(Tail(node))

LeafEntry(w) == [kind |-> "leaf", w |-> w, child |-> << >>, fault |-> ""]
BranchEntry(child, fault) ==
    [kind |-> "branch", w |-> NodeWeight(child), child |-> child,
     fault |-> fault]

(* the branches at fault in a tree *)
RECURSIVE NFaults(_)
NFaults(node) ==
    IF node = << >> THEN 0
    ELSE (IF node[1].fault # "" THEN 1 ELSE 0)
         + NFaults(node[1].child) + NFaults(Tail(node))

SeqsUpTo(S, n) == UNION {[1 .. k -> S] : k \in 1 .. n}
LeafEntries == {LeafEntry(w) : w \in Weights}
(* the nodes below a branch of a tree of two levels *)
Kids ==
    {<<LeafEntry(1)>>, <<LeafEntry(2), LeafEntry(1)>>,
     [k \in 1 .. MaxEntries |-> LeafEntry(2 - (k % 2))]}
(* the trees of one and two levels *)
Nodes1 ==
    {n \in SeqsUpTo(LeafEntries \cup {BranchEntry(c, ft) :
                                         c \in Kids, ft \in Faults},
                    MaxEntries) : NFaults(n) <= 1}
(* the nodes in the middle of a tree of three levels, and those trees *)
Mids ==
    UNION {{<<BranchEntry(l, ft)>>,
            <<LeafEntry(1), BranchEntry(l, ft)>>,
            <<BranchEntry(l, ft), LeafEntry(2)>>} :
                l \in {<<LeafEntry(2), LeafEntry(1)>>}, ft \in Faults}
Nodes2 ==
    {n \in SeqsUpTo(LeafEntries \cup {BranchEntry(c, ft) :
                                         c \in Mids, ft \in Faults},
                    2) : NFaults(n) <= 1}
Trees == Nodes1 \cup Nodes2

(* the tags appended for a leaf: one tag, or a name and a tag *)
LeafAppends(w) ==
    IF w = 1
    THEN <<[w |-> 1, tag |-> TAG_INLINED, payload |-> <<97>>]>>
    ELSE <<[w |-> w, tag |-> TAG_NAME, payload |-> <<110>>],
           [w |-> 0, tag |-> TAG_INLINED, payload |-> <<97>>]>>

(* the appends aps[k..] written after e; W is the weight and prev the *)
(* trunk so far                                                        *)
RECURSIVE EncodeAppends(_, _, _, _, _)
EncodeAppends(e, aps, k, W, prev) ==
    IF k > Len(aps) THEN [e |-> e, trunk |-> prev, weight |-> W]
    ELSE LET a == aps[k]
             at == Len(e.bytes)
             e1 == IF k = 1 THEN e
                   ELSE EncodeRec(e, Rec(TAG_ALT + aps[k - 1].tag, W,
                                         at - prev, << >>, ""))
             e2 == EncodeRec(e1, Rec(a.tag, a.w, Len(a.payload), a.payload, ""))
         IN  EncodeAppends(e2, aps, k + 1, W + a.w, at)

(* The same appends in the other layout: the entries are written last *)
(* to first, each tag with an altgt to the trunk of the entries after  *)
(* it (none for the last entry) and, a further tag of an entry, an     *)
(* altle to what was written for its tags before.  GtOrder is the      *)
(* order of writing; st holds e, the weight W and trunk so far, and    *)
(* for the entry being written its weight wk, the weight after and the *)
(* trunk older of the entries after it, and the offset local of its    *)
(* tags before.                                                        *)
RECURSIVE GtOrder(_)
GtOrder(aps) ==
    IF aps = << >> THEN << >>
    ELSE IF Len(aps) >= 2 /\ aps[2].w = 0
    THEN GtOrder(SubSeq(aps, 3, Len(aps))) \o SubSeq(aps, 1, 2)
    ELSE GtOrder(Tail(aps)) \o <<aps[1]>>

GtAlt(e, a, after, older) ==
    IF after = 0 THEN e
    ELSE EncodeRec(e, Rec(TAG_ALT + 8192 + a.tag, after,
                          Len(e.bytes) - older, << >>, ""))
GtLocal(e, a, prev, wk, local) ==
    IF a.w # 0 THEN e
    ELSE EncodeRec(e, Rec(TAG_ALT + prev.tag, wk, Len(e.bytes) - local,
                          << >>, ""))
GtTag(e, a) == EncodeRec(e, Rec(a.tag, a.w, Len(a.payload), a.payload, ""))

RECURSIVE EncodeAppendsGt(_, _, _)
EncodeGtStep(st, aps, k, at, after, older, e1) ==
    EncodeAppendsGt(
        [e |-> GtTag(GtLocal(e1, aps[k], aps[IF k = 1 THEN 1 ELSE k - 1],
                             st.wk, st.local), aps[k]),
         W |-> st.W + aps[k].w,
         trunk |-> at,
         wk |-> IF aps[k].w # 0 THEN aps[k].w ELSE st.wk,
         after |-> after,
         older |-> older,
         local |-> Len(e1.bytes)],
        aps, k + 1)
EncodeAppendsGt(st, aps, k) ==
    IF k > Len(aps) THEN [e |-> st.e, trunk |-> st.trunk, weight |-> st.W]
    ELSE EncodeGtStep(st, aps, k, Len(st.e.bytes),
            IF aps[k].w # 0 THEN st.W ELSE st.after,
            IF aps[k].w # 0 THEN st.trunk ELSE st.older,
            GtAlt(st.e, aps[k],
                  IF aps[k].w # 0 THEN st.W ELSE st.after,
                  IF aps[k].w # 0 THEN st.trunk ELSE st.older))

(* a node's block: its bytes, trunk, weight and the CRC of its commit *)
WriteCommit(r, dead) ==
    LET c == EncodeRec(r.e, KindRec(IF dead THEN "badcrc" ELSE "crc"))
    IN  [bytes |-> EncodeRec(c, KindRec("stop")).bytes, trunk |-> r.trunk,
         weight |-> r.weight, crc |-> c.crc]
WriteNode(aps, dead, layout) ==
    WriteCommit(
        IF layout = "gt"
        THEN EncodeAppendsGt([e |-> EncodeBlock(Rev0, << >>), W |-> 0,
                              trunk |-> 0, wk |-> 0, after |-> 0,
                              older |-> 0, local |-> 0], GtOrder(aps), 1)
        ELSE EncodeAppends(EncodeBlock(Rev0, << >>), aps, 1, 0, 0),
        dead)

(* the data of a branch to the child written as info at block *)
BranchData(info, block, fault) ==
    toleb128(info.weight + (IF fault = "bw" THEN 1 ELSE 0))
    \o toleb128(info.trunk)
    \o toleb128(IF fault = "gone" THEN 100 ELSE block)
    \o tole32(IF fault = "bcrc" THEN Xor(info.crc, {0}) ELSE info.crc)

(* a tree written with its root at block base and the nodes below it *)
(* in the blocks after: info is the root's, rest the blocks after    *)
RECURSIVE WriteTree(_, _, _, _)
RECURSIVE WriteEntries(_, _, _, _, _)
WriteBranch(en, block, sub, acc) ==
    [aps |-> Append(acc.aps, [w |-> en.w, tag |-> TAG_BTREE,
                              payload |-> BranchData(sub.info, block, en.fault)]),
     rest |-> acc.rest \o <<sub.info.bytes>> \o sub.rest]
WriteEntries(node, k, base, lay, acc) ==
    IF k > Len(node) THEN acc
    ELSE IF node[k].kind = "leaf"
    THEN WriteEntries(node, k + 1, base, lay,
                      [acc EXCEPT !.aps = @ \o LeafAppends(node[k].w)])
    ELSE WriteEntries(node, k + 1, base, lay,
            WriteBranch(node[k], base + 1 + Len(acc.rest),
                        WriteTree(node[k].child, base + 1 + Len(acc.rest),
                                  node[k].fault = "dead", lay),
                        acc))
(* the layout of the node at block base *)
LayoutAt(base, lay) == IF (base + lay) % 2 = 1 THEN "gt" ELSE "le"
WriteTreeOf(a, dead, layout) ==
    [info |-> WriteNode(a.aps, dead, layout), rest |-> a.rest]
WriteTree(node, base, dead, lay) ==
    WriteTreeOf(WriteEntries(node, 1, base, lay,
                             [aps |-> << >>, rest |-> << >>]),
                dead, LayoutAt(base, lay))

(* the blocks bs, each padded to n bytes, one after the other *)
RECURSIVE Disk(_, _)
Disk(bs, n) ==
    IF bs = << >> THEN << >> ELSE PadTo(bs[1], n) \o Disk(Tail(bs), n)

InitBtree ==
    /\ \E tree \in Trees : \E lay \in 0 .. 1 :
        \E t \in {WriteTree(tree, 0, FALSE, lay)} :
        \E bs \in {<<t.info.bytes>> \o t.rest} :
            /\ gen = [tree |-> tree, lay |-> lay]
            /\ block_size = SetMax({Len(bs[k]) : k \in 1 .. Len(bs)})
            /\ f = Disk(bs, block_size)
    /\ blocks = <<0>>
    /\ trunk = 0
    /\ data = << >>
    /\ scan = [at |-> "start"]
    /\ ret = [block |-> 0]
    /\ rbyds = << >> /\ mi = 0 /\ mi_ = 0
    /\ BtreeIdle
    /\ IterIdle
    /\ pc = "fetch"

(* line 490: the root is fetched *)
BtreeFetchRoot ==
    /\ pc = "fetch"
    /\ Len(blocks) = 1
    /\ LET c == FetchOne(f, block_size, blocks[1], trunk)
       IN  IF c.s.at = "raise"
           THEN pc' = "raise" /\ UNCHANGED btree
           ELSE pc' = "traverse" /\ btree' = Rbyd(blocks[1], c.s)
    /\ UNCHANGED <<f, block_size, gen, blocks, trunk, scanVars, ret,
                   mirrorVars, depth, bid, corrupted, res, out,
                   iterVars>>

(* lines 869-921: one turn of the traversal loop *)
BtreeStep ==
    /\ pc = "traverse"
    /\ res' = BtreeLookup(f, block_size, btree, bid + 1, depth)
    /\ IF res'.at = "raise"
       THEN pc' = "raise" /\ UNCHANGED <<bid, corrupted, out>>
       ELSE IF res'.done
       THEN pc' = "done" /\ UNCHANGED <<bid, corrupted, out>>
       ELSE /\ bid' = res'.bid
            /\ corrupted' = (corrupted \/ ~RbydBool(res'.rbyd))
            /\ out' = Append(out, <<res'.bid, res'.w, RbydBool(res'.rbyd)>>)
            /\ UNCHANGED pc
    /\ UNCHANGED <<f, block_size, gen, blocks, trunk, scanVars, ret,
                   mirrorVars, btree, depth, iterVars>>

NextBtree == BtreeFetchRoot \/ BtreeStep

SpecBtree == InitBtree /\ [][NextBtree]_vars

--------------------------------------------------------------------------
(* What the tree was written as *)

(* the weight of the first k entries of node *)
Cum(node, k) == NodeWeight(SubSeq(node, 1, k))

(* the entry of node that covers the local id rid *)
EntryAt(node, rid) ==
    CHOOSE k \in 1 .. Len(node) : Cum(node, k - 1) <= rid /\ rid < Cum(node, k)

(* Where the id rid of node ends up, node being at level lvl and its   *)
(* first id the bid off of the tree: the last bid and the weight of    *)
(* the leaf or of the dangling branch that covers it, ok for a leaf,   *)
(* levels the nodes passed, mismatch whether a branch whose recorded   *)
(* weight or CRC is not its child's was passed                         *)
RECURSIVE Expect(_, _, _, _)
ExpectBelow(r, fault) ==
    [r EXCEPT !.mismatch = @ \/ fault \in {"bw", "bcrc"}]
Expect(node, rid, off, lvl) ==
    LET k == EntryAt(node, rid)
        here == [bid |-> off + Cum(node, k) - 1, w |-> node[k].w,
                 ok |-> node[k].kind = "leaf", levels |-> lvl,
                 mismatch |-> FALSE]
    IN  IF node[k].kind = "leaf" \/ node[k].fault \in {"dead", "gone"}
        THEN here
        ELSE ExpectBelow(Expect(node[k].child, rid - Cum(node, k - 1),
                                off + Cum(node, k - 1), lvl + 1),
                         node[k].fault)

(* the leaves and dangling branches of the tree from the bid b on *)
RECURSIVE ExpectFrom(_, _)
ExpectNext(tree, e) == <<<<e.bid, e.w, e.ok>>>> \o ExpectFrom(tree, e.bid + 1)
ExpectFrom(tree, b) ==
    IF b >= NodeWeight(tree) THEN << >>
    ELSE ExpectNext(tree, Expect(tree, b, 0, 1))

(* the root has been fetched and the traversal not begun: the disk is *)
(* never written, so what btree_lookup returns here it returns at any *)
(* time                                                               *)
Fetched == pc = "traverse" /\ bid = -1
Bids == 0 .. NodeWeight(gen.tree) - 1
Resolve(b) == BtreeLookup(f, block_size, btree, b, 0)
Dangling == \E b \in Bids : ~Expect(gen.tree, b, 0, 1).ok

(* C8: when the child fetched for a branch has another weight or CRC  *)
(* than the branch records, btree_lookup reports the bid as           *)
(* corruption (a falsy node, rid -1, no tags) and never returns an    *)
(* entry of that child.                                               *)
ReportedCorrupt(r) ==
    /\ r.at = "return"
    /\ ~RbydBool(r.rbyd)
    /\ r.rid = -1
    /\ r.tags = << >>
C8_MismatchReported ==
    Fetched =>
        \A b \in Bids :
            Expect(gen.tree, b, 0, 1).mismatch => ReportedCorrupt(Resolve(b))

(* C9: in a well-formed tree of weight W with no depth limit, every   *)
(* bid of [0, W) resolves with done false to a (bid', w) with         *)
(* bid' - w < bid <= bid', that of the leaf written for it; and the   *)
(* ranges of a whole traversal follow one another from 0 to W without *)
(* gap or overlap.                                                    *)
ResolvedTo(b, r, e) ==
    /\ r.at = "return"
    /\ ~r.done
    /\ r.bid - r.w < b
    /\ b <= r.bid
    /\ r.bid = e.bid
    /\ r.w = e.w
    /\ RbydBool(r.rbyd)
    /\ r.rid >= 0
    /\ r.tags # << >>
    /\ Len(r.path) = e.levels
C9_ResolveCovers ==
    (NFaults(gen.tree) = 0 /\ depth = 0) =>
        /\ Fetched =>
            /\ btree.weight = NodeWeight(gen.tree)
            /\ \A b \in Bids :
                ResolvedTo(b, Resolve(b), Expect(gen.tree, b, 0, 1))
        /\ pc \in {"traverse", "done"} =>
            \A k \in 1 .. Len(out) :
                /\ out[k][2] >= 1
                /\ out[k][1] - out[k][2] = (IF k = 1 THEN -1 ELSE out[k - 1][1])
                /\ out[k][1] < NodeWeight(gen.tree)
        /\ pc = "done" =>
            /\ out # << >>
            /\ out[Len(out)][1] = NodeWeight(gen.tree) - 1
            /\ ~corrupted

(* a traversal of a well-formed tree of three levels has ended *)
C9_Witness ==
    /\ pc = "done"
    /\ NFaults(gen.tree) = 0
    /\ gen.tree \in Nodes2 \ Nodes1
    /\ Len(res.path) = 1
    /\ Len(out) >= 4
    /\ \E k \in 1 .. Len(out) : out[k][2] = 2

(* C10: for a bid under a branch whose child fetches as the falsy     *)
(* node btree_lookup returns done false, the last bid and the weight  *)
(* of that branch, the falsy node, rid -1, no tags and the path of    *)
(* the levels down to the branch's node; the traversal sets the       *)
(* corruption flag, goes on after the branch and resolves every other *)
(* bid of the tree.                                                   *)
DanglingAt(r, e) ==
    /\ r.at = "return"
    /\ ~r.done
    /\ r.bid = e.bid
    /\ r.w = e.w
    /\ ~RbydBool(r.rbyd)
    /\ r.rid = -1
    /\ r.tags = << >>
    /\ Len(r.path) = e.levels
    /\ r.path[1][3] = btree
    /\ \A k \in 1 .. Len(r.path) :
        /\ RbydBool(r.path[k][3])
        /\ r.path[k][1] >= r.bid
        /\ \E t \in 1 .. Len(r.path[k][5]) : r.path[k][5][t][1] = TAG_BTREE
    /\ r.path[Len(r.path)][1] = r.bid
    /\ r.path[Len(r.path)][2] = r.w
C10_DanglingSkipped ==
    (Dangling /\ depth = 0) =>
        /\ Fetched =>
            \A b \in Bids :
                ~Expect(gen.tree, b, 0, 1).ok =>
                    DanglingAt(Resolve(b), Expect(gen.tree, b, 0, 1))
        /\ pc = "done" =>
            /\ corrupted
            /\ out = ExpectFrom(gen.tree, 0)

(* a traversal has ended that met a dangling branch of weight 3 two *)
(* levels down and resolved a leaf after it                         *)
C10_Witness ==
    /\ pc = "done"
    /\ corrupted
    /\ \E k \in 1 .. Len(out) - 1 :
        /\ ~out[k][3]
        /\ out[k][2] = 3
        /\ out[k + 1][3]
        /\ Expect(gen.tree, out[k][1], 0, 1).levels = 2

--------------------------------------------------------------------------
(* The nodes Rbyd.__iter__ and Rbyd.tree are run on.  A node is what a   *)
(* sequence of operations leaves in its block: "new1" and "new2" append  *)
(* an entry of weight 1 or 2 with a new id, "more" a further tag of the  *)
(* last id, "upd" writes the last entry again with another payload, "rm" *)
(* removes the last entry and "rm2" the entry before the last, both      *)
(* writing a tag with the TAG_UNR bit.  Each operation writes a trunk:   *)
(* an altle that leads every key up to the entry P before the one        *)
(* written to the trunk that wrote P, then the tag; "rm2" writes between *)
(* the two an altgt that leads every key above P to the tag of the last  *)
(* entry, so that its own tag is never reached.  The tags written before *)
(* stay in the block; those written again or removed are no longer       *)
(* reached.                                                              *)

MaxOps == 5
Ops == {"new1", "new2", "more", "upd", "rm", "rm2"}

Last(q) == q[Len(q)]
Front(q) == SubSeq(q, 1, Len(q) - 1)

(* the tag a further tag of an id is given *)
NextTag(tag) ==
    IF tag < TAG_REG THEN TAG_REG
    ELSE IF tag < TAG_INLINED THEN TAG_INLINED ELSE TAG_BTREE

LiveWeight(live) == IF live = << >> THEN 0 ELSE Last(live).id + 1

(* an operation can be applied to the live entries *)
OpFits(live, op) ==
    \/ op \in {"new1", "new2"}
    \/ op \in {"upd", "rm"} /\ live # << >>
    \/ op = "more" /\ live # << >> /\ Last(live).tag < TAG_BTREE
    \/ op = "rm2" /\ Len(live) >= 3

(* the last entry once the entry x before it is removed: it takes over *)
(* the weight of x when it is a further tag of x's id, and moves down  *)
(* by this weight when its id is another                               *)
Moved(x, en) ==
    IF x.w = 0 THEN en
    ELSE IF en.id = x.id THEN [en EXCEPT !.w = x.w]
    ELSE [en EXCEPT !.id = @ - x.w]

(* the entry an operation writes or removes: its id, tag, weight (0 *)
(* for a further tag of its id) and payload                         *)
OpEntry(live, op) ==
    CASE op = "new1" -> [id |-> LiveWeight(live), tag |-> TAG_INLINED,
                         w |-> 1, payload |-> <<97>>]
      [] op = "new2" -> [id |-> LiveWeight(live) + 1, tag |-> TAG_NAME,
                         w |-> 2, payload |-> <<97>>]
      [] op = "more" -> [id |-> Last(live).id, tag |-> NextTag(Last(live).tag),
                         w |-> 0, payload |-> <<97>>]
      [] op = "upd" -> [Last(live) EXCEPT !.payload = <<98>>]
      [] op = "rm" -> [Last(live) EXCEPT !.payload = << >>]
      [] op = "rm2" -> [Last(Front(live)) EXCEPT !.payload = << >>]

(* the live entries before the one an operation writes, and those *)
(* after the operation                                            *)
OpBefore(live, op) ==
    IF op \in {"upd", "rm"} THEN Front(live)
    ELSE IF op = "rm2" THEN Front(Front(live))
    ELSE live
OpAfter(live, op) ==
    IF op = "rm" THEN Front(live)
    ELSE IF op = "rm2"
    THEN Append(OpBefore(live, op), Moved(Last(Front(live)), Last(live)))
    ELSE Append(OpBefore(live, op), OpEntry(live, op))

RECURSIVE LiveAfter(_, _, _)
LiveAfter(live, ops, k) ==
    IF k > Len(ops) THEN live
    ELSE LiveAfter(OpAfter(live, ops[k]), ops, k + 1)

RECURSIVE OpsFit(_, _, _)
OpsFit(live, ops, k) ==
    IF k > Len(ops) THEN TRUE
    ELSE OpFits(live, ops[k]) /\ OpsFit(OpAfter(live, ops[k]), ops, k + 1)

OpSeqs == {ops \in SeqsUpTo(Ops, MaxOps) : OpsFit(<< >>, ops, 1)}

(* Where the live entries are in the block: for each its trunk t, the *)
(* offset whose alts lead every key up to the entry, and the offset j *)
(* of its tag; at is the trunk being written and j the offset of its  *)
(* tag                                                                *)
OffsAfter(offs, op, at, j) ==
    IF op = "rm" THEN Front(offs)
    ELSE IF op = "rm2"
    THEN Append(Front(Front(offs)), [t |-> at, j |-> Last(offs).j])
    ELSE IF op = "upd" THEN Append(Front(offs), [t |-> at, j |-> j])
    ELSE Append(offs, [t |-> at, j |-> j])

(* the trunk of one operation written after e: before are the live *)
(* entries before the entry en written, their places offs          *)
EncodeOpLe(e, before, offs) ==
    IF before = << >> THEN e
    ELSE EncodeRec(e, Rec(TAG_ALT + Last(before).tag, Last(before).id + 1,
                          Len(e.bytes) - offs[Len(before)].t, << >>, ""))
EncodeOpGt(e, before, last, j, op) ==
    IF op # "rm2" THEN e
    ELSE EncodeRec(e, Rec(TAG_ALT + 8192 + Last(before).tag,
                          last.id - Last(before).id,
                          Len(e.bytes) - j, << >>, ""))
EncodeOpTag(e, en, op) ==
    EncodeRec(e, Rec(IF op \in {"rm", "rm2"} THEN TAG_UNR + en.tag ELSE en.tag,
                     IF op \in {"rm", "rm2"} THEN 0 ELSE en.w,
                     Len(en.payload), en.payload, ""))

RECURSIVE EncodeOps(_, _, _)
EncodeOpEnd(st, ops, k, at, e1) ==
    EncodeOps([e |-> EncodeOpTag(e1, OpEntry(st.live, ops[k]), ops[k]),
               live |-> OpAfter(st.live, ops[k]),
               offs |-> OffsAfter(st.offs, ops[k], at, Len(e1.bytes)),
               trunk |-> at],
              ops, k + 1)
EncodeOp(st, ops, k, at) ==
    EncodeOpEnd(st, ops, k, at,
        EncodeOpGt(EncodeOpLe(st.e, OpBefore(st.live, ops[k]), st.offs),
                   OpBefore(st.live, ops[k]),
                   IF ops[k] = "rm2" THEN Last(OpAfter(st.live, ops[k]))
                                     ELSE << >>,
                   IF ops[k] = "rm2" THEN Last(st.offs).j ELSE 0,
                   ops[k]))
EncodeOps(st, ops, k) ==
    IF k > Len(ops)
    THEN [e |-> st.e, trunk |-> st.trunk, weight |-> LiveWeight(st.live)]
    ELSE EncodeOp(st, ops, k, Len(st.e.bytes))

(* the appends of the live entries, for the layout of altgt; it is   *)
(* written for entries of at most two tags                           *)
LiveAppends(live) ==
    [k \in 1 .. Len(live) |->
        [w |-> live[k].w, tag |-> live[k].tag, payload |-> live[k].payload]]
Layouts(ops) ==
    IF /\ \A k \in 1 .. Len(ops) : ops[k] \in {"new1", "new2", "more"}
       /\ \A k \in 2 .. Len(ops) : ~(ops[k] = "more" /\ ops[k - 1] = "more")
    THEN {"le", "gt"} ELSE {"le"}

(* the block of the node: its bytes, trunk and weight *)
WriteOps(ops, layout) ==
    IF layout = "gt"
    THEN WriteNode(LiveAppends(LiveAfter(<< >>, ops, 1)), FALSE, "gt")
    ELSE WriteCommit(EncodeOps([e |-> EncodeBlock(Rev0, << >>),
                                live |-> << >>, offs |-> << >>,
                                trunk |-> 0], ops, 1),
                     FALSE)

--------------------------------------------------------------------------
(* Rbyd.lookup turn by turn, and Rbyd.__iter__, lines 365-374 *)

(* lines 296-305: lookup is entered; seen, the (j, lower, upper) of the *)
(* turns made, is kept to tell a descent that comes back to where it    *)
(* was, and so never ends                                               *)
LookupEnter(rbyd) ==
    IF ~RbydBool(rbyd)
    THEN Lookup(rbyd, << >>, 0, 0)
    ELSE [lower |-> LookupInit(rbyd).lower, upper |-> LookupInit(rbyd).upper,
          path |-> LookupInit(rbyd).path, j |-> LookupInit(rbyd).j,
          at |-> "descend", seen |-> {}]

(* one turn of lookup's loop, s what it leaves *)
LookupTurn(cur, s) ==
    IF s.at # "descend" THEN s
    ELSE IF <<s.j, s.lower, s.upper>> \in cur.seen \cup {<<cur.j, cur.lower, cur.upper>>}
    THEN [s EXCEPT !.at = "spin"]
    ELSE [s EXCEPT !.seen = @ \cup {<<cur.j, cur.lower, cur.upper>>}]

(* where the program is after a turn of lookup *)
LookupPc(s) ==
    CASE s.at = "descend" -> "descend"
      [] s.at = "done" -> "found"
      [] s.at = "raise" -> "raise"
      [] s.at = "spin" -> "spin"

InitIter ==
    /\ \E ops \in OpSeqs : \E layout \in Layouts(ops) :
        \E n \in {WriteOps(ops, layout)} :
            /\ gen = [ops |-> ops, layout |-> layout]
            /\ f = n.bytes
            /\ block_size = Len(n.bytes)
    /\ blocks = <<0>>
    /\ trunk = 0
    /\ data = << >>
    /\ scan = [at |-> "start"]
    /\ ret = [block |-> 0]
    /\ rbyds = << >> /\ mi = 0 /\ mi_ = 0
    /\ BtreeIdle
    /\ it \in {[at |-> "start", mode |-> m] : m \in {"iter", "tree"}}
    /\ lk = [at |-> "start"]
    /\ pc = "fetch"

(* the node is fetched, and lines 366-367 and 381: the loop is entered *)
IterStart ==
    /\ pc = "fetch"
    /\ it.at = "start"
    /\ data' = ReadBlock(f, block_size, blocks[1])
    /\ LET c == FetchOne(f, block_size, blocks[1], trunk)
       IN  IF c.s.at = "raise"
           THEN pc' = "raise" /\ UNCHANGED <<ret, it>>
           ELSE /\ pc' = "call"
                /\ ret' = Rbyd(blocks[1], c.s)
                /\ it' = IF it.mode = "tree"
                         THEN [at |-> "loop", mode |-> it.mode, id |-> -1,
                               tag |-> 0, trunks |-> << >>, alts |-> << >>]
                         ELSE [at |-> "loop", mode |-> it.mode, id |-> -1,
                               tag |-> 0, yields |-> << >>]
    /\ UNCHANGED <<f, block_size, gen, blocks, trunk, scan, mirrorVars,
                   btreeVars, lk>>

(* lines 370 and 383: self.lookup(id, tag+0x1) is called *)
IterCall ==
    /\ pc = "call"
    /\ lk' = LookupEnter(ret)
    /\ pc' = LookupPc(lk')
    /\ UNCHANGED <<f, block_size, gen, blocks, trunk, scanVars, ret,
                   mirrorVars, btreeVars, it>>

(* lines 306-354: one turn of the descent of the lookup called *)
IterLookup ==
    /\ pc = "descend"
    /\ lk' = LookupTurn(lk, LookupBody(data, it.id, it.tag + 1, lk))
    /\ pc' = LookupPc(lk')
    /\ UNCHANGED <<f, block_size, gen, blocks, trunk, scanVars, ret,
                   mirrorVars, btreeVars, it>>

(* lines 370-374: the entry found is yielded, or the loop left *)
IterTurn ==
    /\ pc = "found"
    /\ it.mode = "iter"
    /\ IF lk.done
       THEN pc' = "done" /\ UNCHANGED it
       ELSE /\ pc' = "call"
            /\ it' = [it EXCEPT !.id = lk.id, !.tag = lk.tag,
                                !.yields = Append(@, <<lk.id, lk.tag, lk.w,
                                                       lk.j, lk.d, lk.data>>)]
    /\ UNCHANGED <<f, block_size, gen, blocks, trunk, scanVars, ret,
                   mirrorVars, btreeVars, lk>>

(* Rbyd.tree, lines 377-463.  A dict is a function, << >> the empty one; *)
(* an alt of alts has the keys f, nf and c, -1 for a key it has not.     *)
DictSet(dct, k, v) ==
    [x \in DOMAIN dct \cup {k} |-> IF x = k THEN v ELSE dct[x]]
(* line 379: alts is a defaultdict of {} *)
AltAt(alts, j) ==
    IF j \in DOMAIN alts THEN alts[j] ELSE [f |-> -1, nf |-> -1, c |-> ""]
(* line 378: trunks is a defaultdict of (-1, 0) *)
TrunkAt(trunks, j) == IF j \in DOMAIN trunks THEN trunks[j] ELSE <<-1, 0>>

(* lines 391-395: the alts of the path of one lookup, from its k-th on *)
RECURSIVE TreeAlts(_, _, _)
TreeAlts(alts, path, k) ==
    IF k > Len(path) THEN alts
    ELSE TreeAlts(
            DictSet(alts, path[k][1],
                IF path[k][3]
                THEN [AltAt(alts, path[k][1]) EXCEPT !.f = path[k][2],
                                                     !.c = path[k][4]]
                ELSE [AltAt(alts, path[k][1]) EXCEPT !.nf = path[k][2],
                                                     !.c = path[k][4]]),
            path, k + 1)

(* lines 398-403: the alts with an unreachable edge, each with the *)
(* other edge                                                      *)
TreePruned(alts) ==
    [j \in {x \in DOMAIN alts : alts[x].f = -1 \/ alts[x].nf = -1} |->
        IF alts[j].f = -1 THEN alts[j].nf ELSE alts[j].f]
(* lines 408-411: while j in pruned: j = pruned[j] *)
RECURSIVE TreeSkip(_, _)
TreeSkip(pruned, j) ==
    IF j \in DOMAIN pruned THEN TreeSkip(pruned, pruned[j]) ELSE j
(* lines 404-411: the alts kept, their edges past the alts pruned *)
TreeKept(alts, pruned) ==
    [j \in DOMAIN alts \ DOMAIN pruned |->
        [alts[j] EXCEPT !.f = TreeSkip(pruned, @),
                        !.nf = TreeSkip(pruned, @)]]

(* lines 415-421 *)
RECURSIVE rec_trunk(_, _, _)
rec_trunk(alts, trunks, j_) ==
    IF j_ \notin DOMAIN alts THEN TrunkAt(trunks, j_)
    ELSE rec_trunk(alts, trunks, alts[j_].nf)
(* lines 425-429: ft *)
TreeFt(alts, trunks, j_) ==
    IF alts[j_].f \in DOMAIN alts
    THEN rec_trunk(alts, trunks, alts[j_].f)
    ELSE TrunkAt(trunks, alts[j_].f)
(* rec_height with a slip: the height of the child followed is left out *)
RECURSIVE rec_height_nf(_, _)
rec_height_nf(alts, j_) ==
    IF j_ \notin DOMAIN alts THEN 0
    ELSE rec_height_nf(alts, alts[j_].nf) + 1

(* lines 431-439 *)
RECURSIVE rec_height(_, _)
rec_height(alts, j_) ==
    IF j_ \notin DOMAIN alts THEN 0
    ELSE Max(rec_height(alts, alts[j_].f), rec_height(alts, alts[j_].nf)) + 1
(* line 444 *)
TreeDepth(alts) ==
    IF DOMAIN alts = {} THEN 0
    ELSE SetMax({rec_height(alts, j) + 1 : j \in DOMAIN alts})
(* lines 447-461: the two edges of the alt at j *)
TBranch(a, b, d, c) == [a |-> a, b |-> b, d |-> d, c |-> c]
TreeEdges(alts, trunks, t_depth, j) ==
    {TBranch(rec_trunk(alts, trunks, j), rec_trunk(alts, trunks, j),
             t_depth - 1 - rec_height(alts, j), alts[j].c),
     TBranch(rec_trunk(alts, trunks, j), TreeFt(alts, trunks, j),
             t_depth - 1 - rec_height(alts, j), "b")}
(* lines 397-463: what tree returns *)
TreeOf(alts, trunks) ==
    [tree |-> UNION {TreeEdges(alts, trunks, TreeDepth(alts), j) :
                        j \in DOMAIN alts},
     t_depth |-> TreeDepth(alts)]
TreeReturn(alts, trunks) == TreeOf(TreeKept(alts, TreePruned(alts)), trunks)

(* lines 383-395: the trunk and the alts of the entry found are kept; *)
(* lines 385-386 and 397-463: or the loop is left and the tree made   *)
TreeTurn ==
    /\ pc = "found"
    /\ it.mode = "tree"
    /\ IF lk.done
       THEN /\ pc' = "done"
            /\ it' = [at |-> "return", mode |-> it.mode,
                      trunks |-> it.trunks, alts |-> it.alts,
                      tree |-> TreeReturn(it.alts, it.trunks).tree,
                      t_depth |-> TreeReturn(it.alts, it.trunks).t_depth]
       ELSE /\ pc' = "call"
            /\ it' = [it EXCEPT !.id = lk.id, !.tag = lk.tag,
                                !.trunks = DictSet(@, lk.j, <<lk.id, lk.tag>>),
                                !.alts = TreeAlts(@, lk.path, 1)]
    /\ UNCHANGED <<f, block_size, gen, blocks, trunk, scanVars, ret,
                   mirrorVars, btreeVars, lk>>

NextIter == IterStart \/ IterCall \/ IterLookup \/ IterTurn \/ TreeTurn

SpecIter == InitIter /\ [][NextIter]_vars

--------------------------------------------------------------------------
(* What the node was written as *)

Live == LiveAfter(<< >>, gen.ops, 1)
Iterated == pc = "done" /\ it.at = "loop" /\ it.mode = "iter"

(* C11: exhaustive iteration of a well-formed node with N live entries *)
(* (the entries written and not removed since, each with its last      *)
(* payload) yields exactly these N entries, each once, in strictly     *)
(* increasing order of (id, tag).                                      *)
C11_IterYieldsLive ==
    Iterated =>
        /\ Len(it.yields) = Len(Live)
        /\ \A k \in 1 .. Len(Live) :
            /\ it.yields[k][1] = Live[k].id
            /\ it.yields[k][2] = Live[k].tag
            /\ it.yields[k][6] = Live[k].payload
        /\ \A k \in 2 .. Len(it.yields) :
            PairLess(it.yields[k - 1][1], it.yields[k - 1][2],
                     it.yields[k][1], it.yields[k][2])

(* a node has been iterated that has two live entries, on one id, and *)
(* in its block the tag of an entry removed from between them         *)
C11_Witness ==
    /\ Iterated
    /\ Len(it.yields) = 2
    /\ gen.ops[Len(gen.ops)] = "rm2"
    /\ it.yields[1][1] = it.yields[2][1]
    /\ it.yields[1][2] < it.yields[2][2]

(* the node has been fetched and no lookup made yet: the block is never *)
(* written, so what lookup returns here it returns at any time          *)
IterFetched ==
    pc = "call" /\ it.at = "loop" /\ it.mode = "iter" /\ it.yields = << >>

(* the keys lookup is asked for: the ids from -1 to past the last, the *)
(* tags around those written                                           *)
ReqIds == -1 .. LiveWeight(Live) + 1
ReqTags ==
    {0, 1, TAG_NAME, TAG_REG, TAG_REG + 1, TAG_INLINED, TAG_INLINED + 1,
     TAG_BTREE, TAG_BTREE + 1, TAG_UNR - 1, TAG_UNR, TAG_UNR + TAG_NAME}

(* C12: on a well-formed node with at least one live entry lookup(-1, 0) *)
(* returns done false and the smallest (id, tag) of the node; asked for  *)
(* a key above the largest entry of the node lookup returns done true.   *)
FoundFirst(r) ==
    /\ r.at = "done"
    /\ ~r.done
    /\ r.id = Live[1].id
    /\ r.tag = Live[1].tag
    /\ r.data = Live[1].payload
C12_FirstAndPast ==
    (IterFetched /\ Live # << >>) =>
        /\ FoundFirst(Lookup(ret, data, -1, 0))
        /\ \A id \in ReqIds : \A tag \in ReqTags :
            PairLess(Last(Live).id, Last(Live).tag, id, tag) =>
                /\ Lookup(ret, data, id, tag).at = "done"
                /\ Lookup(ret, data, id, tag).done

(* a node of the layout of altgt whose first entry has weight 2, so *)
(* that its smallest id is 1, and a further tag                     *)
C12_Witness ==
    /\ IterFetched
    /\ gen.layout = "gt"
    /\ Len(Live) >= 3
    /\ Live[1].id = 1
    /\ Live[2].id = 1
    /\ Lookup(ret, data, -1, 0).id = 1
    /\ Lookup(ret, data, Last(Live).id, Last(Live).tag + 1).done

(* every turn of the lookup of (id, tag) from s on keeps *)
(* -1 <= lower < upper <= W                              *)
RECURSIVE LookupKeeps(_, _, _, _, _)
LookupKeeps(bytes, id, tag, s, W) ==
    IF s.at # "descend" THEN s.at = "done"
    ELSE /\ -1 <= s.lower
         /\ s.lower < s.upper
         /\ s.upper <= W
         /\ LookupKeeps(bytes, id, tag, LookupBody(bytes, id, tag, s), W)

(* the yields that are the first of their id *)
FirstOfIds(yields) ==
    SelectSeq([k \in 1 .. Len(yields) |->
                  [id |-> yields[k][1], w |-> yields[k][3],
                   first |-> k = 1 \/ yields[k][1] # yields[k - 1][1]]],
              LAMBDA y : y.first)
RECURSIVE SumOfW(_)
SumOfW(q) == IF q = << >> THEN 0 ELSE q[1].w + SumOfW(Tail(q))

(* C13: on a well-formed node of weight W every lookup keeps           *)
(* -1 <= lower < upper <= W at each turn, and the (id, w) found for    *)
(* the first tag of each id over an exhaustive iteration are ranges    *)
(* (id - w, id] that follow one another from -1 to W - 1 without gap   *)
(* or overlap, so that their weights sum to W.                         *)
RangesTile(q, W) ==
    /\ \A k \in 1 .. Len(q) :
        /\ q[k].w >= 1
        /\ q[k].id - q[k].w = (IF k = 1 THEN -1 ELSE q[k - 1].id)
    /\ (IF q = << >> THEN -1 ELSE Last(q).id) = W - 1
    /\ SumOfW(q) = W
C13_RangesPartition ==
    /\ pc = "descend" =>
        /\ -1 <= lk.lower
        /\ lk.lower < lk.upper
        /\ lk.upper <= ret.weight
    /\ pc = "found" =>
        /\ -1 <= lk.id - lk.w
        /\ lk.id < ret.weight
    /\ IterFetched =>
        /\ ret.weight = LiveWeight(Live)
        /\ \A id \in ReqIds : \A tag \in ReqTags :
            LookupKeeps(data, id, tag, LookupInit(ret), ret.weight)
    /\ Iterated => RangesTile(FirstOfIds(it.yields), ret.weight)

(* an iteration has ended of a node of weight 4 on three ids, one of *)
(* weight 2 and one of two tags                                      *)
C13_Witness ==
    /\ Iterated
    /\ ret.weight = 4
    /\ Len(FirstOfIds(it.yields)) = 3
    /\ Len(it.yields) >= 4
    /\ \E k \in 1 .. 3 : FirstOfIds(it.yields)[k].w = 2

--------------------------------------------------------------------------
(* What the lookups of the live entries of the node pass *)

TreeDone == pc = "done" /\ it.mode = "tree" /\ it.at = "return"

(* the lookup of the k-th live entry *)
Observed(k) == Lookup(ret, data, Live[k].id, Live[k].tag)
(* the turns at alts of these lookups: the alt, where the turn leads *)
(* and whether the alt was followed                                   *)
StepsOf(path) == {<<path[i][1], path[i][2], path[i][3]>> : i \in 1 .. Len(path)}
Steps == UNION {StepsOf(Observed(k).path) : k \in 1 .. Len(Live)}
(* the terminals found: offset, id and tag *)
Terminals ==
    {<<Observed(k).j, Live[k].id, Live[k].tag>> : k \in 1 .. Len(Live)}

AltsSeen(st) == {x[1] : x \in st}
Side(st, j, fl) == {x[2] : x \in {y \in st : y[1] = j /\ y[3] = fl}}
(* the alts followed for some entry and not followed for some entry *)
Surviving(st) ==
    {j \in AltsSeen(st) : Side(st, j, TRUE) # {} /\ Side(st, j, FALSE) # {}}
ChildOf(st, j, fl) == CHOOSE x \in Side(st, j, fl) : TRUE
(* j, or what is reached from j past the alts seen on one side only *)
RECURSIVE Spliced(_, _)
Spliced(st, j) ==
    IF j \in AltsSeen(st) \ Surviving(st)
    THEN Spliced(st, CHOOSE x \in Side(st, j, TRUE) \cup Side(st, j, FALSE) :
                        TRUE)
    ELSE j
RECURSIVE HeightOf(_, _)
HeightOf(st, j) ==
    IF j \in Surviving(st)
    THEN 1 + Max(HeightOf(st, Spliced(st, ChildOf(st, j, TRUE))),
                 HeightOf(st, Spliced(st, ChildOf(st, j, FALSE))))
    ELSE 0
(* the (id, tag) of the terminal reached from j by never following *)
RECURSIVE LeftMost(_, _, _)
LeftMost(st, ts, j) ==
    IF j \in Surviving(st)
    THEN LeftMost(st, ts, Spliced(st, ChildOf(st, j, FALSE)))
    ELSE CHOOSE x \in {<<t[2], t[3]>> : t \in {y \in ts : y[1] = j}} : TRUE

(* the edges of the alt at j, drawn at depth d *)
EdgeOwn(st, ts, j, d) ==
    {TBranch(LeftMost(st, ts, j), LeftMost(st, ts, j), d, c) :
        c \in {"b", "r", "y"}}
EdgeFollowed(st, ts, j, d) ==
    TBranch(LeftMost(st, ts, j),
            LeftMost(st, ts, Spliced(st, ChildOf(st, j, TRUE))), d, "b")
(* tree holds the two edges of every surviving alt, the depth of an *)
(* alt of height h being D - h, and no other edge                   *)
EdgesAre(tree, st, ts, D) ==
    /\ \A j \in Surviving(st) :
        /\ EdgeOwn(st, ts, j, D - HeightOf(st, j)) \cap tree # {}
        /\ EdgeFollowed(st, ts, j, D - HeightOf(st, j)) \in tree
    /\ \A e \in tree : \E j \in Surviving(st) :
        \/ e \in EdgeOwn(st, ts, j, D - HeightOf(st, j))
        \/ e = EdgeFollowed(st, ts, j, D - HeightOf(st, j))

(* C17, as stated: tree returns (edges, max depth) with, for every alt  *)
(* both followed and not followed for some entry, of height h (0 for a  *)
(* terminal, 1 + the larger height of its two children past the alts    *)
(* pruned), an edge from its left-most descendant and an edge to the    *)
(* left-most descendant of its followed child, at depth                 *)
(* (max depth returned - h); alts seen on one side only give no edge.   *)
C17_EdgesAtDepth ==
    TreeDone => EdgesAre(it.tree, Steps, Terminals, it.t_depth)

(* C17, amended: the depth of the two edges is                      *)
(* (max depth returned - 1 - h).                                    *)
C17_EdgesBelowDepth ==
    TreeDone => EdgesAre(it.tree, Steps, Terminals, it.t_depth - 1)

(* the tree of a node with an alt seen on one side only between a   *)
(* surviving alt and its child, and surviving alts of two heights   *)
C17_Witness ==
    /\ TreeDone
    /\ \E j \in Surviving(Steps) :
        ChildOf(Steps, j, FALSE) \in AltsSeen(Steps) \ Surviving(Steps)
    /\ \E j, k \in Surviving(Steps) :
        HeightOf(Steps, j) # HeightOf(Steps, k)
    /\ it.tree # {}

--------------------------------------------------------------------------
(* main's traversal, lines 865-921, with btree_lookup, lines 497-549,  *)
(* and Rbyd.lookup a turn of a loop at a time, on disks that no writer *)
(* left: an alt that jumps by 0, an alt that jumps back to an alt      *)
(* that leads to it again, a branch to its own block, two blocks with  *)
(* a branch to each other; and on trees as they are written.           *)

(* the blocks of the disks, each a commit *)
LoopBlock(recs) ==
    EncodeBlock(Rev0, recs \o <<KindRec("crc"), KindRec("stop")>>).bytes
LoopBranch(block) ==
    Rec(TAG_BTREE, 1, 7,
        BranchData([weight |-> 1, trunk |-> 4, crc |-> {}], block, ""), "")
LoopTree(kind, tree) ==
    [kind |-> kind,
     bs |-> <<WriteTree(tree, 0, FALSE, 0).info.bytes>>
                \o WriteTree(tree, 0, FALSE, 0).rest]
LoopImages ==
    {[kind |-> "jump0",
      bs |-> <<LoopBlock(<<Rec(TAG_ALT + TAG_INLINED, 1, 0, << >>, ""),
                           Rec(TAG_INLINED, 1, 1, <<97>>, "")>>)>>],
     [kind |-> "cycle",
      bs |-> <<LoopBlock(<<Rec(TAG_ALT + 8192 + TAG_UNR - 1, 0, 4, << >>, ""),
                           Rec(TAG_ALT + TAG_INLINED, 1, 4, << >>, ""),
                           Rec(TAG_INLINED, 1, 1, <<97>>, "")>>)>>],
     [kind |-> "self", bs |-> <<LoopBlock(<<LoopBranch(0)>>)>>],
     [kind |-> "pair",
      bs |-> <<LoopBlock(<<LoopBranch(1)>>), LoopBlock(<<LoopBranch(0)>>)>>],
     LoopTree("leaf", <<LeafEntry(2), LeafEntry(1)>>),
     LoopTree("tree", <<LeafEntry(1),
                        BranchEntry(<<LeafEntry(2), LeafEntry(1)>>, "")>>),
     LoopTree("deep", <<BranchEntry(<<LeafEntry(1),
                          BranchEntry(<<LeafEntry(2), LeafEntry(1)>>, "")>>,
                          ""), LeafEntry(2)>>),
     LoopTree("dead", <<BranchEntry(<<LeafEntry(2)>>, "dead"), LeafEntry(1)>>)}

InitLoop ==
    /\ \E im \in LoopImages :
        /\ gen = [kind |-> im.kind]
        /\ block_size = SetMax({Len(im.bs[k]) : k \in 1 .. Len(im.bs)})
        /\ f = Disk(im.bs, block_size)
    /\ blocks = <<0>>
    /\ trunk = 0
    /\ data = << >>
    /\ scan = [at |-> "start"]
    /\ ret = [block |-> 0]
    /\ rbyds = << >> /\ mi = 0 /\ mi_ = 0
    /\ BtreeIdle
    /\ IterIdle
    /\ pc = "fetch"

(* lines 507-515: a level of the descent of btree_lookup(b) is entered; *)
(* seen, the (block, trunk, rid) of the levels passed, is kept to tell  *)
(* a descent that comes back to where it was, and so never ends         *)
LoopEnter(b, rbyd, rid, depth_, path, seen) ==
    [at |-> IF <<rbyd.block, rbyd.trunk, rid>> \in seen THEN "spin"
                                                        ELSE "tags",
     bid |-> b, rbyd |-> rbyd, rid |-> rid, depth_ |-> depth_, path |-> path,
     seen |-> seen \cup {<<rbyd.block, rbyd.trunk, rid>>},
     i |-> 0, rid_ |-> rid, w |-> 0, tag |-> 0, tags |-> << >>,
     branch |-> << >>]

(* lines 869-871 and 497-505: btree_lookup(bid+1) is called *)
LoopCall ==
    /\ pc = "traverse"
    /\ IF ~RbydBool(btree)
       THEN /\ res' = BtreeResult(bid + 1 > 0, bid + 1, 0, btree, -1, << >>,
                                  << >>)
            /\ pc' = "return"
            /\ UNCHANGED it
       ELSE /\ it' = LoopEnter(bid + 1, btree, bid + 1, 1, << >>, {})
            /\ pc' = "tags"
            /\ UNCHANGED res
    /\ UNCHANGED <<f, block_size, gen, blocks, trunk, scanVars, ret,
                   mirrorVars, btree, depth, bid, corrupted, out, lk>>

(* lines 516-517: rbyd.lookup(rid_, tag+0x1) is called *)
LoopTags ==
    /\ pc = "tags"
    /\ data' = ReadBlock(f, block_size, it.rbyd.block)
    /\ lk' = LookupEnter(it.rbyd)
    /\ pc' = LookupPc(lk')
    /\ UNCHANGED <<f, block_size, gen, blocks, trunk, scan, ret,
                   mirrorVars, btreeVars, it>>

(* lines 306-354: one turn of the descent of the lookup called *)
LoopLookup ==
    /\ pc = "descend"
    /\ lk' = LookupTurn(lk, LookupBody(data, it.rid_, it.tag + 1, lk))
    /\ pc' = LookupPc(lk')
    /\ UNCHANGED <<f, block_size, gen, blocks, trunk, scanVars, ret,
                   mirrorVars, btreeVars, it>>

(* lines 518-530: the tag found is kept, or the loop over the tags left *)
LoopFound ==
    /\ pc = "found"
    /\ IF lk.done \/ (it.i # 0 /\ lk.id # it.rid_)
       THEN pc' = "level" /\ UNCHANGED it
       ELSE /\ pc' = "tags"
            /\ it' = [it EXCEPT
                        !.i = @ + 1,
                        !.rid_ = IF it.i = 0 THEN lk.id ELSE @,
                        !.w = IF it.i = 0 THEN lk.w ELSE @,
                        !.tag = lk.tag,
                        !.tags = Append(@, <<lk.tag, lk.j, lk.d, lk.data>>),
                        !.branch = IF lk.tag = TAG_BTREE
                                   THEN <<lk.tag, lk.j, lk.d, lk.data>> ELSE @]
    /\ UNCHANGED <<f, block_size, gen, blocks, trunk, scanVars, ret,
                   mirrorVars, btreeVars, lk>>

(* lines 533-549: the level goes on the path, and the descent goes down *)
(* the branch found, to the child c fetched, or btree_lookup returns    *)
LoopDown(path, c) ==
    IF c.s.at = "raise"
    THEN pc' = "raise" /\ UNCHANGED <<it, res>>
    ELSE IF ~RbydBool(Rbyd(c.block, c.s))
    THEN /\ res' = BtreeCorrupt(it.bid + (it.rid_ - it.rid), it.w,
                                Rbyd(c.block, c.s), path)
         /\ pc' = "return"
         /\ UNCHANGED it
    ELSE /\ it' = LoopEnter(it.bid, Rbyd(c.block, c.s),
                            BtreeRid(it.rid, it.rid_, it.w), it.depth_ + 1,
                            path, it.seen)
         /\ pc' = it'.at
         /\ UNCHANGED res
LoopBranchOf(path, p) ==
    LoopDown(path, FetchOne(f, block_size, p.block, p.trunk))
LoopLevelOf(path) ==
    IF it.branch # << >> /\ (depth = 0 \/ it.depth_ < depth)
    THEN LoopBranchOf(path, frombtree(it.branch[4]))
    ELSE /\ res' = BtreeResult(it.tags = << >>, it.bid + (it.rid_ - it.rid),
                               it.w, it.rbyd, it.rid_, it.tags, path)
         /\ pc' = "return"
         /\ UNCHANGED it
LoopLevel ==
    /\ pc = "level"
    /\ LoopLevelOf(Append(it.path, <<it.bid + (it.rid_ - it.rid), it.w,
                                     it.rbyd, it.rid_, it.tags>>))
    /\ UNCHANGED <<f, block_size, gen, blocks, trunk, scanVars, ret,
                   mirrorVars, btree, depth, bid, corrupted, out, lk>>

(* lines 872-921: what btree_lookup returned ends the traversal or is *)
(* shown                                                              *)
LoopReturn ==
    /\ pc = "return"
    /\ IF res.done
       THEN pc' = "done" /\ UNCHANGED <<bid, corrupted, out>>
       ELSE /\ bid' = res.bid
            /\ corrupted' = (corrupted \/ ~RbydBool(res.rbyd))
            /\ out' = Append(out, <<res.bid, res.w, RbydBool(res.rbyd)>>)
            /\ pc' = "traverse"
    /\ UNCHANGED <<f, block_size, gen, blocks, trunk, scanVars, ret,
                   mirrorVars, btree, depth, res, iterVars>>

NextLoop ==
    \/ BtreeFetchRoot
    \/ LoopCall
    \/ LoopTags
    \/ LoopLookup
    \/ LoopFound
    \/ LoopLevel
    \/ LoopReturn

SpecLoop == InitLoop /\ [][NextLoop]_vars

(* C14: the traversal with no depth limit ends on every disk: no     *)
(* lookup and no btree_lookup comes back to a turn of its loop that  *)
(* it made before (from where it would go round for ever); every     *)
(* btree_lookup that is not done returns a bid at or above the one   *)
(* asked for, and one asked for a bid at or above the root's weight  *)
(* returns done.                                                     *)
C14_Terminates ==
    /\ pc # "spin"
    /\ (pc = "return" /\ ~res.done) => res.bid >= bid + 1
    /\ (pc = "return" /\ bid + 1 >= btree.weight) => res.done

--------------------------------------------------------------------------
(* Rbyd.fetch of one block with a requested trunk, lines 245-294 *)

(* The blocks are written record by record, as for the fetch with no *)
(* trunk requested, and read whole; the trunk requested is the       *)
(* offset of a record, an offset inside one, or the block's end.     *)
TrunkKinds == {"altle", "altgt", "tag", "crc", "badcrc"}
TrunksOf(e) ==
    {e.offs[i] : i \in 1 .. Len(e.offs)}
        \cup {e.offs[i] + 1 : i \in 1 .. Len(e.offs)}
        \cup {Len(e.bytes)}

InitTrunk ==
    /\ \E n \in 1 .. MaxRecs : \E kinds \in [1 .. n -> TrunkKinds] :
        \E e \in {EncodeBlock(Rev0, KindRecs(kinds))} :
            /\ gen = [kinds |-> kinds, cut |-> 0, offs |-> e.offs,
                      crcs |-> e.crcs]
            /\ f = e.bytes
            /\ block_size = Len(e.bytes)
            /\ trunk \in TrunksOf(e)
    /\ blocks = <<0>>
    /\ data = << >>
    /\ scan = [at |-> "start"]
    /\ ret = [block |-> 0]
    /\ rbyds = << >> /\ mi = 0 /\ mi_ = 0
    /\ BtreeIdle
    /\ IterIdle
    /\ pc = "fetch"

SpecTrunk == InitTrunk /\ [][NextFetch]_vars

(* What the block holds for the trunk requested.  The tags that close *)
(* a trunk that starts at or below the trunk requested; those of them *)
(* with a valid commit after them; the valid commit the result is     *)
(* taken at: the first that ends above the trunk requested, the last  *)
(* one when none does.                                                *)
ClosedAt(T) ==
    {e \in 1 .. NRecs : RecCloses(e) /\ RecOff(TrunkOpen(e)) <= T}
CommittedAt(T) == {e \in ClosedAt(T) : \E c \in Commits : c > e}
CommitAt(T) ==
    IF \E c \in Commits : RecEnd(c) > T
    THEN SetMin({c \in Commits : RecEnd(c) > T})
    ELSE LastCommit
(* the start of the last trunk opened at or below T before record c *)
OpenedAt(c, T) ==
    LET in == {m \in 1 .. c - 1 :
                  RecInTrunk(m) /\ RecOff(TrunkOpen(m)) <= T}
    IN  IF in = {} THEN 0 ELSE RecOff(TrunkOpen(SetMax(in)))
(* fetch, with the trunk requested, of the first n bytes of the block *)
FetchOfPrefixAt(n) ==
    Rbyd(blocks[1], FetchLoop(PySlice(f, 0, n), trunk,
                              FetchInit(PySlice(f, 0, n))))

TakenAt(T) ==
    IF Commits = {} THEN {}
    ELSE {e \in ClosedAt(T) : e < CommitAt(T)}

--------------------------------------------------------------------------
(* main.btree_lookup with a depth limit, lines 497-549 and 869-871 *)

(* the depth limits main is run with: 0 is None, no limit *)
MaxDepth == 3
InitDepth ==
    /\ \E tree \in Trees : \E lay \in 0 .. 1 :
        \E t \in {WriteTree(tree, 0, FALSE, lay)} :
        \E bs \in {<<t.info.bytes>> \o t.rest} :
            /\ gen = [tree |-> tree, lay |-> lay]
            /\ block_size = SetMax({Len(bs[k]) : k \in 1 .. Len(bs)})
            /\ f = Disk(bs, block_size)
    /\ blocks = <<0>>
    /\ trunk = 0
    /\ data = << >>
    /\ scan = [at |-> "start"]
    /\ ret = [block |-> 0]
    /\ rbyds = << >> /\ mi = 0 /\ mi_ = 0
    /\ btree = [block |-> 0]
    /\ depth \in 0 .. MaxDepth
    /\ bid = -1
    /\ corrupted = FALSE
    /\ res = [at |-> "start"]
    /\ out = << >>
    /\ IterIdle
    /\ pc = "fetch"

SpecDepth == InitDepth /\ [][NextBtree]_vars

(* the blocks a tree is written to: the node and the nodes below it *)
RECURSIVE NBlocks(_)
NBlocks(node) ==
    IF node = << >> THEN 1
    ELSE (IF node[1].kind = "branch" THEN NBlocks(node[1].child) ELSE 0)
         + NBlocks(Tail(node))
(* the block of the child of entry k of the node written at block base *)
ChildBlock(node, k, base) == base + NBlocks(SubSeq(node, 1, k - 1))

(* Where the id rid of node ends up under the depth limit D, node being *)
(* at level lvl and written at block base: the level and the block of   *)
(* the node the descent ends at, and whether it ends at a branch        *)
RECURSIVE ExpectAt(_, _, _, _, _)
ExpectAt(node, rid, base, lvl, D) ==
    LET k == EntryAt(node, rid)
    IN  IF node[k].kind = "leaf" \/ (D # 0 /\ lvl >= D)
        THEN [levels |-> lvl, block |-> base,
              branch |-> node[k].kind = "branch"]
        ELSE ExpectAt(node[k].child, rid - Cum(node, k - 1),
                      ChildBlock(node, k, base), lvl + 1, D)

HasBranch(tags) == \E k \in 1 .. Len(tags) : tags[k][1] = TAG_BTREE
ResolveAt(b) == BtreeLookup(f, block_size, btree, b, depth)

(* C16: with a depth limit D >= 1 btree_lookup fetches no child below  *)
(* level D: the path returned has at most D levels, and in a tree with *)
(* no branch at fault the node returned is the node at level           *)
(* min(D, leaf level), also when its entry has a branch; with no limit *)
(* (0) the descent goes on to an entry without a branch.               *)
ResolvedAt(r, e) ==
    /\ r.at = "return"
    /\ ~r.done
    /\ Len(r.path) = e.levels
    /\ r.rbyd = r.path[Len(r.path)][3]
    /\ r.rbyd.block = e.block
    /\ RbydBool(r.rbyd)
    /\ HasBranch(r.tags) = e.branch
DepthKept(r, D) ==
    /\ r.at = "return"
    /\ D >= 1 =>
        /\ Len(r.path) <= D
        /\ ~RbydBool(r.rbyd) => Len(r.path) < D
    /\ D = 0 => ~HasBranch(r.tags)
LevelsAt(e, leaf, D) ==
    e.levels = (IF D = 0 THEN leaf.levels ELSE Min(D, leaf.levels))
C16_DepthLimit ==
    Fetched =>
        \A b \in Bids :
            /\ DepthKept(ResolveAt(b), depth)
            /\ NFaults(gen.tree) = 0 =>
                /\ ResolvedAt(ResolveAt(b), ExpectAt(gen.tree, b, 0, 1, depth))
                /\ LevelsAt(ExpectAt(gen.tree, b, 0, 1, depth),
                            Expect(gen.tree, b, 0, 1), depth)

(* a tree of three levels looked up with the limit 2: the node in the *)
(* middle is returned with its branch                                 *)
C16_Witness ==
    /\ Fetched
    /\ depth = 2
    /\ NFaults(gen.tree) = 0
    /\ \E b \in Bids :
        /\ Expect(gen.tree, b, 0, 1).levels = 3
        /\ Len(ResolveAt(b).path) = 2
        /\ ResolveAt(b).rbyd.block # 0
        /\ HasBranch(ResolveAt(b).tags)

==========================================================================
